---------------------------- MODULE Spec2Model ----------------------------
(***************************************************************************)
(* A model of the iterative refinement engine of Gubbins                   *)
(* (python/gubbins/common.py): parse_and_run, the round-by-round driver,   *)
(* and the convergence tests it calls.                                     *)
(*                                                                         *)
(* File names are modelled as sequences of string parts, so that Python's  *)
(* string concatenation is sequence concatenation (\o).  The external      *)
(* programs (tree builder, ancestral reconstructor, recombination          *)
(* detector) are the environment: their exit status and the files they     *)
(* write are chosen nondeterministically from small sets.                  *)
(***************************************************************************)
EXTENDS Integers, Sequences, FiniteSets, TLC

VARIABLES
    pc,                      \* position of the control in parse_and_run
    input_args,              \* the argument record (some fields are reassigned by the run)
    alignment_file,          \* the user's alignment file as found on disk
    starting_tree_file,      \* the user's starting tree file as found on disk
    stale_intermediate,      \* files "<basename>.iteration_*" of a previous run exist
    i,                       \* the loop index of the main loop
    tree_builder,            \* local: the tree-building tool
    sequence_reconstructor,  \* local: the ancestral-reconstruction tool
    alignment_suffix,        \* local
    current_tree_name,       \* local
    tree_file_names,         \* local: the accumulated list of tree file names
    temp_working_dir,        \* does the scratch directory exist
    files,                   \* files written during the run: name -> content
    log,                     \* history: the stages run so far, in order
    printed,                 \* history: the loop-exit messages printed so far
    output_filenames_to_final_filenames,  \* local: the renaming applied by the final step
    exit_reason              \* the message of sys.exit (or the uncaught exception), "" while running

vars == << pc, input_args, alignment_file, starting_tree_file, stale_intermediate, i,
           tree_builder, sequence_reconstructor, alignment_suffix, current_tree_name,
           tree_file_names, temp_working_dir, files, log, printed,
           output_filenames_to_final_filenames, exit_reason >>

---------------------------------------------------------------------------
(* Bounds of the model *)

\* the largest configured number of iterations (input_args.iterations)
MaxIterations == 3

---------------------------------------------------------------------------
(* Values *)

\* Python's None, as a name that is no string of the model
None == << "<None>" >>
\* the empty string
EmptyString == << >>
\* a local that has not been assigned yet
Unset == "<unset>"

\* Python truthiness of an optional string: None and "" are false
Truthy(s) == s # None /\ s # EmptyString

\* str(i)
Str(n) == << "1", "2", "3", "4", "5", "6", "7", "8", "9" >>[n]

\* os.path.split / os.path.splitext of the alignment file name
base_filename == << "aln", ".fa" >>
basename == << "aln" >>
\* the scratch directory made by tempfile.mkdtemp, and a path in it
TempDirName == << "tmp" >>
InTemp(name) == TempDirName \o << "/" >> \o name
\* the path of a starting tree given by the user
UserTreePath == << "start", ".tre" >>

gaps_alignment_filename == base_filename \o << ".gaps.snp_sites.aln" >>
gaps_vcf_filename == base_filename \o << ".gaps.vcf" >>
joint_sequences_filename == base_filename \o << ".seq.joint.aln" >>

\* current_basename and current_tree_name of iteration n
CurrentBasename(n) == basename \o << ".iteration_", Str(n) >>
CurrentTreeName(n) == CurrentBasename(n) \o << ".tre" >>

\* the tools of gubbins.treebuilders
FastTree == "FastTree"
RAxML == "RAxML"
IQTree == "IQTree"

TreeBuilderOptions == { "fasttree", "hybrid", "raxml", "iqtree" }
ConvergeMethods == { "recombination", "weighted_robinson_foulds", "robinson_foulds" }

\* the content of a file whose content the run never reads back
Opaque == << >>

---------------------------------------------------------------------------
(* The user's input files *)

\* the alignment file: missing, invalid, or valid with the given sequence ids
AlignmentFiles ==
    { [exists |-> FALSE, valid |-> FALSE, names |-> {}],
      [exists |-> TRUE, valid |-> FALSE, names |-> {}],
      [exists |-> TRUE, valid |-> TRUE, names |-> { "A", "B" }],
      [exists |-> TRUE, valid |-> TRUE, names |-> { "A", "B", "C", "D" }] }

\* a tree as the run compares it: the length of the edge of each bipartition
TreeA == [ s \in { "AB|CD", "A|BCD" } |-> 1 ]
TreeB == [ s \in { "AB|CD", "A|BCD" } |-> IF s = "A|BCD" THEN 2 ELSE 1 ]
TreeC == [ s \in { "AC|BD", "A|BCD" } |-> 1 ]
Trees == { TreeA, TreeB, TreeC }

\* no file at the starting tree's path (also: no starting tree given)
NoTreeFile == [exists |-> FALSE, valid |-> FALSE, leaves |-> {}, tree |-> TreeA]

\* the starting tree file: missing, invalid, or valid with the given leaf labels
StartingTreeFiles ==
    { NoTreeFile,
      [exists |-> TRUE, valid |-> FALSE, leaves |-> {}, tree |-> TreeA],
      [exists |-> TRUE, valid |-> TRUE, leaves |-> { "A", "B", "C", "E" }, tree |-> TreeA],
      [exists |-> TRUE, valid |-> TRUE, leaves |-> { "A", "B", "C" }, tree |-> TreeA],
      [exists |-> TRUE, valid |-> TRUE, leaves |-> { "A", "B", "C", "D" }, tree |-> TreeA] }

\* number_of_sequences_in_alignment
number_of_sequences_in_alignment(aln) == Cardinality(aln.names)

\* a faulty comparison: the tree must name every sequence of the alignment
do_the_names_equal_the_fasta_file(tree_file, aln) ==
    tree_file.leaves = aln.names

\* do_the_names_match_the_fasta_file: False at the first leaf whose label is no sequence name
do_the_names_match_the_fasta_file(tree_file, aln) ==
    ~ \E lf \in tree_file.leaves : lf \notin aln.names

---------------------------------------------------------------------------
(* The recombination predictions (".tab", EMBL) written by the detector *)

\* the lines of a file: a feature line "misc_feature  start..end", a line
\* holding taxa="...", or any other line
FeatureLine(s, e) == [kind |-> "feature", start |-> s, end |-> e, taxa |-> << >>]
TaxaLine(names) == [kind |-> "taxa", start |-> 0, end |-> 0, taxa |-> names]
OtherLine == [kind |-> "other", start |-> 0, end |-> 0, taxa |-> << >>]

\* two recombinations of one taxon
RecombFileTwo ==
    << FeatureLine(10, 50), TaxaLine(<< "seq1" >>), FeatureLine(60, 70), TaxaLine(<< "seq1", "seq2" >>) >>
\* the same two blocks in the other order
RecombFileTwoPermuted ==
    << FeatureLine(60, 70), TaxaLine(<< "seq1", "seq2" >>), FeatureLine(10, 50), TaxaLine(<< "seq1" >>) >>
\* one coordinate differs
RecombFileTwoShifted ==
    << FeatureLine(10, 51), TaxaLine(<< "seq1" >>), FeatureLine(60, 70), TaxaLine(<< "seq1", "seq2" >>) >>
\* the same recombinations as RecombFileTwo in a file with other lines, a taxa
\* line with no feature before it, and a feature overwritten by the next one
RecombFileTwoNoisy ==
    << OtherLine, TaxaLine(<< "seq2" >>), FeatureLine(1, 2), FeatureLine(10, 50), OtherLine,
       TaxaLine(<< "seq1" >>), FeatureLine(60, 70), TaxaLine(<< "seq1", "seq2" >>) >>

RecombFiles == { RecombFileTwo, RecombFileTwoPermuted, RecombFileTwoShifted, RecombFileTwoNoisy }

\* a faulty AddTaxa: the interval replaces the list of the taxon
RECURSIVE AddTaxaOverwriting(_, _, _, _, _)
AddTaxaOverwriting(sequences_to_coords, taxa_names, k, start_coord, end_coord) ==
    IF k > Len(taxa_names) THEN sequences_to_coords
    ELSE AddTaxaOverwriting(
             [t \in DOMAIN sequences_to_coords \cup { taxa_names[k] } |->
                 IF t = taxa_names[k] THEN << << start_coord, end_coord >> >>
                 ELSE sequences_to_coords[t]],
             taxa_names, k + 1, start_coord, end_coord)

\* the inner loop of extract_recombinations_from_embl: append [start, end] to each taxon of the line
RECURSIVE AddTaxa(_, _, _, _, _)
AddTaxa(sequences_to_coords, taxa_names, k, start_coord, end_coord) ==
    IF k > Len(taxa_names) THEN sequences_to_coords
    ELSE LET taxa_name == taxa_names[k]
             added == IF taxa_name \in DOMAIN sequences_to_coords
                      THEN [sequences_to_coords EXCEPT
                               ![taxa_name] = Append(@, << start_coord, end_coord >>)]
                      ELSE [t \in DOMAIN sequences_to_coords \cup { taxa_name } |->
                               IF t = taxa_name THEN << << start_coord, end_coord >> >>
                               ELSE sequences_to_coords[t]]
         IN  AddTaxa(added, taxa_names, k + 1, start_coord, end_coord)

\* the loop over the lines of extract_recombinations_from_embl
RECURSIVE ExtractLines(_, _, _, _, _)
ExtractLines(lines, k, sequences_to_coords, start_coord, end_coord) ==
    IF k > Len(lines) THEN sequences_to_coords
    ELSE LET line == lines[k] IN
         IF line.kind = "feature"
         THEN ExtractLines(lines, k + 1, sequences_to_coords, line.start, line.end)
         ELSE IF start_coord >= 0 /\ end_coord >= 0 /\ line.kind = "taxa"
         THEN ExtractLines(lines, k + 1,
                           AddTaxa(sequences_to_coords, line.taxa, 1, start_coord, end_coord),
                           -1, -1)
         ELSE ExtractLines(lines, k + 1, sequences_to_coords, start_coord, end_coord)

\* extract_recombinations_from_embl: taxon -> list of [start, end]
extract_recombinations_from_embl(lines) ==
    ExtractLines(lines, 1, [t \in {} |-> << >>], -1, -1)

\* get_recombination_files: << current_file, previous_files >>
get_recombination_files(basenames) ==
    LET previous_files == [k \in 1..Len(basenames) |-> basenames[k] \o << ".tab" >>]
    IN  << previous_files[Len(previous_files)], SubSeq(previous_files, 1, Len(previous_files) - 1) >>

\* a faulty have_recombinations_been_seen_before: only the file of the
\* iteration before is compared
have_recombinations_been_seen_just_before(fs, current_file, previous_files) ==
    /\ current_file \in DOMAIN fs
    /\ Len(previous_files) > 0
    /\ previous_files[Len(previous_files)] \in DOMAIN fs
    /\ extract_recombinations_from_embl(fs[current_file])
           = extract_recombinations_from_embl(fs[previous_files[Len(previous_files)]])

\* have_recombinations_been_seen_before, on the file system fs
have_recombinations_been_seen_before(fs, current_file, previous_files) ==
    IF current_file \notin DOMAIN fs THEN FALSE
    ELSE \E k \in 1..Len(previous_files) :
            /\ previous_files[k] \in DOMAIN fs
            /\ extract_recombinations_from_embl(fs[current_file])
                   = extract_recombinations_from_embl(fs[previous_files[k]])

---------------------------------------------------------------------------
(* The tree distances *)

Abs(x) == IF x < 0 THEN -x ELSE x

EdgeLength(tree, split) == IF split \in DOMAIN tree THEN tree[split] ELSE 0

RECURSIVE SumOver(_, _, _)
SumOver(splits, t1, t2) ==
    IF splits = {} THEN 0
    ELSE LET s == CHOOSE x \in splits : TRUE
         IN  Abs(EdgeLength(t1, s) - EdgeLength(t2, s)) + SumOver(splits \ { s }, t1, t2)

\* robinson_foulds_distance: the weighted Robinson-Foulds distance of two tree files
robinson_foulds_distance(t1, t2) == SumOver(DOMAIN t1 \cup DOMAIN t2, t1, t2)

\* a faulty symmetric_difference: only the numbers of bipartitions are compared
symmetric_difference_of_sizes(t1, t2) ==
    Abs(Cardinality(DOMAIN t1) - Cardinality(DOMAIN t2))

\* symmetric_difference: the number of bipartitions in exactly one of the trees
symmetric_difference(t1, t2) ==
    Cardinality((DOMAIN t1 \ DOMAIN t2) \cup (DOMAIN t2 \ DOMAIN t1))

\* a faulty has_tree_been_seen_before: the last existing tree is compared with
\* the existing tree before it only
has_tree_been_seen_just_before(fs, names, converge_method) ==
    IF Len(names) <= 2 THEN FALSE
    ELSE LET tree_files_which_exist == SelectSeq(names, LAMBDA n : n \in DOMAIN fs)
             last == tree_files_which_exist[Len(tree_files_which_exist)]
             before == tree_files_which_exist[Len(tree_files_which_exist) - 1]
         IN  /\ Len(tree_files_which_exist) >= 2
             /\ IF converge_method = "weighted_robinson_foulds"
                THEN robinson_foulds_distance(fs[before], fs[last]) = 0
                ELSE symmetric_difference(fs[before], fs[last]) = 0

\* has_tree_been_seen_before, on the file system fs
has_tree_been_seen_before(fs, names, converge_method) ==
    IF Len(names) <= 2 THEN FALSE
    ELSE LET tree_files_which_exist == SelectSeq(names, LAMBDA n : n \in DOMAIN fs)
             last == tree_files_which_exist[Len(tree_files_which_exist)]
         IN  \E k \in 1..Len(tree_files_which_exist) :
                /\ tree_files_which_exist[k] # last
                /\ IF converge_method = "weighted_robinson_foulds"
                   THEN robinson_foulds_distance(fs[tree_files_which_exist[k]], fs[last]) = 0
                   ELSE symmetric_difference(fs[tree_files_which_exist[k]], fs[last]) = 0

---------------------------------------------------------------------------
(* The final file names *)

\* a faulty translation_of_filenames_to_final_filenames: the labelled tree is forgotten
translation_without_labelled_tree(input_prefix, output_prefix) ==
    { << input_prefix \o << ".vcf" >>, output_prefix \o << ".summary_of_snp_distribution.vcf" >> >>,
      << input_prefix \o << ".branch_snps.tab" >>, output_prefix \o << ".branch_base_reconstruction.embl" >> >>,
      << input_prefix \o << ".tab" >>, output_prefix \o << ".recombination_predictions.embl" >> >>,
      << input_prefix \o << ".gff" >>, output_prefix \o << ".recombination_predictions.gff" >> >>,
      << input_prefix \o << ".stats" >>, output_prefix \o << ".per_branch_statistics.csv" >> >>,
      << input_prefix \o << ".snp_sites.aln" >>, output_prefix \o << ".filtered_polymorphic_sites.fasta" >> >>,
      << input_prefix \o << ".phylip" >>, output_prefix \o << ".filtered_polymorphic_sites.phylip" >> >>,
      << input_prefix, output_prefix \o << ".final_tree.tre" >> >> }

\* a faulty translation_of_filenames_to_final_filenames: the two trees get one final name
translation_with_one_tree_name(input_prefix, output_prefix) ==
    { << input_prefix \o << ".vcf" >>, output_prefix \o << ".summary_of_snp_distribution.vcf" >> >>,
      << input_prefix \o << ".branch_snps.tab" >>, output_prefix \o << ".branch_base_reconstruction.embl" >> >>,
      << input_prefix \o << ".tab" >>, output_prefix \o << ".recombination_predictions.embl" >> >>,
      << input_prefix \o << ".gff" >>, output_prefix \o << ".recombination_predictions.gff" >> >>,
      << input_prefix \o << ".stats" >>, output_prefix \o << ".per_branch_statistics.csv" >> >>,
      << input_prefix \o << ".snp_sites.aln" >>, output_prefix \o << ".filtered_polymorphic_sites.fasta" >> >>,
      << input_prefix \o << ".phylip" >>, output_prefix \o << ".filtered_polymorphic_sites.phylip" >> >>,
      << input_prefix \o << ".internal" >>, output_prefix \o << ".final_tree.tre" >> >>,
      << input_prefix, output_prefix \o << ".final_tree.tre" >> >> }

\* translation_of_filenames_to_final_filenames: the set of << working name, final name >>
translation_of_filenames_to_final_filenames(input_prefix, output_prefix) ==
    { << input_prefix \o << ".vcf" >>, output_prefix \o << ".summary_of_snp_distribution.vcf" >> >>,
      << input_prefix \o << ".branch_snps.tab" >>, output_prefix \o << ".branch_base_reconstruction.embl" >> >>,
      << input_prefix \o << ".tab" >>, output_prefix \o << ".recombination_predictions.embl" >> >>,
      << input_prefix \o << ".gff" >>, output_prefix \o << ".recombination_predictions.gff" >> >>,
      << input_prefix \o << ".stats" >>, output_prefix \o << ".per_branch_statistics.csv" >> >>,
      << input_prefix \o << ".snp_sites.aln" >>, output_prefix \o << ".filtered_polymorphic_sites.fasta" >> >>,
      << input_prefix \o << ".phylip" >>, output_prefix \o << ".filtered_polymorphic_sites.phylip" >> >>,
      << input_prefix \o << ".internal" >>, output_prefix \o << ".node_labelled.final_tree.tre" >> >>,
      << input_prefix, output_prefix \o << ".final_tree.tre" >> >> }

---------------------------------------------------------------------------
(* The state machine of parse_and_run *)

\* the file system fs with content written to name
Put(fs, name, content) ==
    [n \in DOMAIN fs \cup { name } |-> IF n = name THEN content ELSE fs[n]]

\* utils.rename_files: each working file that exists takes its final name
rename_files(fs, input_to_output_filenames) ==
    LET renamed == { r \in input_to_output_filenames : r[1] \in DOMAIN fs }
    IN  [n \in (DOMAIN fs \ { r[1] : r \in renamed }) \cup { r[2] : r \in renamed } |->
            IF \E r \in renamed : r[2] = n
            THEN fs[(CHOOSE r \in renamed : r[2] = n)[1]]
            ELSE fs[n]]

\* a tree file whose internal nodes have labels: the tree and the mark of the labels
WithInternalLabels(tree) == [tree |-> tree, internal_labels |-> TRUE]
HasInternalLabels(content) == "internal_labels" \in DOMAIN content

\* a faulty remove_internal_node_labels_from_tree: the tree is written as it was read
tree_written_as_read(content) == content

\* remove_internal_node_labels_from_tree: the tree is written without the
\* labels of its internal nodes
remove_internal_node_labels_from_tree(content) ==
    IF HasInternalLabels(content) THEN content.tree ELSE content

\* one entry of the history: the stage that ran, the iteration it ran in (0
\* outside the loop), the tool or method it used, its file argument, and its
\* outcome (a tool's: exit status zero; the convergence check's: converged)
Event(stage, n, tool, arg, result) ==
    [stage |-> stage, i |-> n, tool |-> tool, arg |-> arg, result |-> result]

\* the exit messages
MsgNoGubbins == "gubbins is not in your path"
MsgAlignment == "There input alignment file does not exist or has an invalid format"
MsgStartingTree == "The starting tree does not exist or has an invalid format"
MsgNames == "The names in the starting tree do not match the names in the alignment file"
MsgTooFew == "3 or more sequences are required."
MsgIntermediate == "Intermediate files from a previous run exist."
MsgSnps == "Gubbins crashed, please ensure you have enough free memory"
MsgBuild == "Failed while building the tree."
MsgReconstruct == "Failed while reconstructing the ancestral sequences."
MsgGaps == "There is a problem with your FASTA file after running internal sequence reconstruction. Please check this intermediate file is valid: aln.fa.gaps.snp_sites.aln"
MsgDetect == "Failed while running Gubbins. Please ensure you have enough free memory"
\* an uncaught exception of shutil.copyfile
MsgCopyError == "FileNotFoundError"

\* the messages printed when the loop is left
MsgConvergedRecombinations == "Convergence: Recombinations observed before."
MsgConvergedTree == "Convergence: Tree observed before."
MsgMaxIterations == "Maximum number of iterations reached."

\* the contents of the files the environment writes; the content of a file
\* that the configured convergence test never reads is not enumerated
BuiltTrees(converge_method) == IF converge_method = "recombination" THEN { TreeA } ELSE Trees
DetectorTabs(converge_method) == IF converge_method = "recombination" THEN RecombFiles ELSE { Opaque }
TabMayBeMissing(converge_method) == IF converge_method = "recombination" THEN BOOLEAN ELSE { FALSE }

Init ==
    /\ pc = "CheckDependencies"
    /\ input_args \in [ iterations : 0..MaxIterations,
                        tree_builder : TreeBuilderOptions,
                        starting_tree : { None, EmptyString, UserTreePath },
                        converge_method : ConvergeMethods,
                        no_cleanup : BOOLEAN,
                        outgroup : { None, << "A" >> },
                        prefix : { None, << "out" >> },
                        alignment_filename : { base_filename } ]
    /\ alignment_file \in AlignmentFiles
    /\ starting_tree_file \in
           IF input_args.starting_tree = UserTreePath THEN StartingTreeFiles ELSE { NoTreeFile }
    /\ stale_intermediate \in BOOLEAN
    /\ i = 0
    /\ tree_builder = Unset
    /\ sequence_reconstructor = Unset
    /\ alignment_suffix = Unset
    /\ current_tree_name = None
    /\ tree_file_names = << >>
    /\ temp_working_dir = FALSE
    /\ files = [n \in {} |-> Opaque]
    /\ log = << >>
    /\ printed = << >>
    /\ output_filenames_to_final_filenames = {}
    /\ exit_reason = ""

\* a faulty exit: the message is recorded and the stage is run again
ExitAndRetry(reason, event) ==
    /\ pc' = pc
    /\ exit_reason' = reason
    /\ log' = Append(log, event)
    /\ UNCHANGED << input_args, alignment_file, starting_tree_file, stale_intermediate, i,
                    tree_builder, sequence_reconstructor, alignment_suffix, current_tree_name,
                    tree_file_names, temp_working_dir, files, printed,
                    output_filenames_to_final_filenames >>

\* sys.exit(reason) in a stage that has changed nothing else
Exit(reason, event) ==
    /\ pc' = "Failed"
    /\ exit_reason' = reason
    /\ log' = Append(log, event)
    /\ UNCHANGED << input_args, alignment_file, starting_tree_file, stale_intermediate, i,
                    tree_builder, sequence_reconstructor, alignment_suffix, current_tree_name,
                    tree_file_names, temp_working_dir, files, printed,
                    output_filenames_to_final_filenames >>

\* the tools chosen for input_args.tree_builder: << tree_builder, sequence_reconstructor, alignment_suffix >>
InitialTools(option) ==
    IF option = "fasttree" \/ option = "hybrid" THEN << FastTree, RAxML, ".snp_sites.aln" >>
    ELSE IF option = "raxml" THEN << RAxML, RAxML, ".phylip" >>
    ELSE << IQTree, IQTree, ".phylip" >>

\* lines 50-84: the executable is looked up, the tools are chosen
CheckDependencies ==
    /\ pc = "CheckDependencies"
    /\ \E gubbins_found \in BOOLEAN :
          IF ~ gubbins_found
          THEN Exit(MsgNoGubbins, Event("DEPENDENCIES", 0, "which", EmptyString, FALSE))
          ELSE /\ current_tree_name' = input_args.starting_tree
               /\ tree_file_names' = << >>
               /\ tree_builder' = InitialTools(input_args.tree_builder)[1]
               /\ sequence_reconstructor' = InitialTools(input_args.tree_builder)[2]
               /\ alignment_suffix' = InitialTools(input_args.tree_builder)[3]
               /\ log' = Append(log, Event("DEPENDENCIES", 0, "which", EmptyString, TRUE))
               /\ pc' = "Validate"
               /\ UNCHANGED << input_args, alignment_file, starting_tree_file, stale_intermediate,
                               i, temp_working_dir, files, printed,
                               output_filenames_to_final_filenames, exit_reason >>

\* a faulty input check: the names of the starting tree are not compared
InputCheckWithoutNames(args, aln, tree_file) ==
    IF ~ aln.exists \/ ~ aln.valid THEN MsgAlignment
    ELSE IF args.starting_tree # None /\ args.starting_tree # EmptyString
            /\ (~ tree_file.exists \/ ~ tree_file.valid) THEN MsgStartingTree
    ELSE IF number_of_sequences_in_alignment(aln) < 3 THEN MsgTooFew
    ELSE ""

\* lines 88-98: the message of the first input check that fails, "" when all pass
InputCheck(args, aln, tree_file) ==
    IF ~ aln.exists \/ ~ aln.valid THEN MsgAlignment
    ELSE IF args.starting_tree # None /\ args.starting_tree # EmptyString
            /\ (~ tree_file.exists \/ ~ tree_file.valid) THEN MsgStartingTree
    ELSE IF args.starting_tree # None /\ args.starting_tree # EmptyString
            /\ ~ do_the_names_match_the_fasta_file(tree_file, aln) THEN MsgNames
    ELSE IF number_of_sequences_in_alignment(aln) < 3 THEN MsgTooFew
    ELSE ""

\* lines 86-98: the input files are checked
Validate ==
    /\ pc = "Validate"
    /\ LET reason == InputCheck(input_args, alignment_file, starting_tree_file) IN
       IF reason # ""
       THEN Exit(reason, Event("VALIDATE", 0, "input", input_args.alignment_filename, FALSE))
       ELSE /\ pc' = "CheckIntermediate"
            /\ log' = Append(log, Event("VALIDATE", 0, "input", input_args.alignment_filename, TRUE))
            /\ UNCHANGED << input_args, alignment_file, starting_tree_file, stale_intermediate, i,
                            tree_builder, sequence_reconstructor, alignment_suffix,
                            current_tree_name, tree_file_names, temp_working_dir, files, printed,
                            output_filenames_to_final_filenames, exit_reason >>

\* lines 114-121: intermediate files of a previous run are deleted, or stop the run
CheckIntermediate ==
    /\ pc = "CheckIntermediate"
    /\ stale_intermediate' = IF ~ input_args.no_cleanup THEN FALSE ELSE stale_intermediate
    /\ IF stale_intermediate'
       THEN /\ pc' = "Failed"
            /\ exit_reason' = MsgIntermediate
       ELSE /\ pc' = "Preprocess"
            /\ exit_reason' = exit_reason
    /\ log' = Append(log, Event("CHECK_INTERMEDIATE", 0, "delete_files",
                                basename \o << ".iteration_" >>, ~ stale_intermediate'))
    /\ UNCHANGED << input_args, alignment_file, starting_tree_file, i,
                    tree_builder, sequence_reconstructor, alignment_suffix, current_tree_name,
                    tree_file_names, temp_working_dir, files, printed,
                    output_filenames_to_final_filenames >>

\* lines 123-140: the scratch directory is made, the alignment is filtered into
\* it, and the taxa filtered out are removed from a given starting tree
Preprocess ==
    /\ pc = "Preprocess"
    /\ temp_working_dir' = TRUE
    /\ IF Truthy(input_args.starting_tree)
       THEN /\ files' = Put(files, InTemp(input_args.starting_tree), starting_tree_file.tree)
            /\ input_args' = [input_args EXCEPT !.alignment_filename = InTemp(base_filename),
                                                !.starting_tree = InTemp(input_args.starting_tree)]
       ELSE /\ files' = files
            /\ input_args' = [input_args EXCEPT !.alignment_filename = InTemp(base_filename)]
    /\ log' = Append(log, Event("PREPROCESS", 0, "PreProcessFasta", base_filename, TRUE))
    /\ pc' = "DetectSnps"
    /\ UNCHANGED << alignment_file, starting_tree_file, stale_intermediate, i,
                    tree_builder, sequence_reconstructor, alignment_suffix, current_tree_name,
                    tree_file_names, printed, output_filenames_to_final_filenames, exit_reason >>

\* lines 142-151: the detector finds the SNP sites
DetectSnps ==
    /\ pc = "DetectSnps"
    /\ \E exit_zero \in BOOLEAN :
          IF ~ exit_zero
          THEN Exit(MsgSnps, Event("DETECT_SNPS", 0, "gubbins", input_args.alignment_filename, FALSE))
          ELSE /\ pc' = "LoopHead"
               /\ log' = Append(log, Event("DETECT_SNPS", 0, "gubbins", input_args.alignment_filename, TRUE))
               /\ UNCHANGED << input_args, alignment_file, starting_tree_file, stale_intermediate,
                               i, tree_builder, sequence_reconstructor, alignment_suffix,
                               current_tree_name, tree_file_names, temp_working_dir, files,
                               printed, output_filenames_to_final_filenames, exit_reason >>

\* a faulty loop bound: one iteration too many
HasNextIterationOffByOne(n, iterations) == n <= iterations

\* line 155: does the loop over range(1, iterations + 1) have a next index after n
HasNextIteration(n, iterations) == n + 1 <= iterations

\* lines 155 and 277-279: the for statement takes the next index, or the loop
\* ends without a break and its else branch prints the message
LoopHead ==
    /\ pc = "LoopHead"
    /\ IF HasNextIteration(i, input_args.iterations)
       THEN /\ i' = i + 1
            /\ pc' = "BuildTree"
            /\ printed' = printed
       ELSE /\ i' = i
            /\ pc' = "Finalize"
            /\ printed' = Append(printed, MsgMaxIterations)
    /\ UNCHANGED << input_args, alignment_file, starting_tree_file, stale_intermediate,
                    tree_builder, sequence_reconstructor, alignment_suffix, current_tree_name,
                    tree_file_names, temp_working_dir, files, log,
                    output_filenames_to_final_filenames, exit_reason >>

\* a faulty switch: the tools stay as they are
SwitchToolsNever(n, option, builder, reconstructor, suffix) == << builder, suffix >>

\* lines 159-162: in hybrid mode the tree builder becomes the sequence
\* reconstructor in iteration 2: << tree_builder, alignment_suffix >>
SwitchTools(n, option, builder, reconstructor, suffix) ==
    IF n = 2 /\ option = "hybrid" THEN << reconstructor, ".phylip" >> ELSE << builder, suffix >>

\* a faulty choice of the previous tree: always the starting tree
PreviousTreeNameAlwaysStarting(n, starting_tree, current) == starting_tree

\* lines 164-169: the tree handed to the tree builder as the previous tree
PreviousTreeName(n, starting_tree, current) ==
    IF n = 1 THEN starting_tree ELSE current

\* line 182: is the starting tree copied instead of a tree being built
CopiesStartingTree(n, starting_tree) == starting_tree # None /\ n = 1

\* lines 158-195: the tree of the iteration is built, or copied from the starting tree
BuildTree ==
    /\ pc = "BuildTree"
    /\ LET switched == SwitchTools(i, input_args.tree_builder, tree_builder,
                                   sequence_reconstructor, alignment_suffix)
           previous_tree_name == PreviousTreeName(i, input_args.starting_tree, current_tree_name)
           previous_argument == IF Truthy(previous_tree_name) THEN previous_tree_name ELSE EmptyString
           name == CurrentTreeName(i)
       IN  /\ tree_builder' = switched[1]
           /\ alignment_suffix' = switched[2]
           /\ current_tree_name' = name
           /\ IF CopiesStartingTree(i, input_args.starting_tree)
              THEN IF input_args.starting_tree \in DOMAIN files
                   THEN /\ files' = Put(files, name, files[input_args.starting_tree])
                        /\ log' = Append(log, Event("COPY_STARTING_TREE", i, "copyfile",
                                                    input_args.starting_tree, TRUE))
                        /\ pc' = "Reroot"
                        /\ exit_reason' = exit_reason
                   ELSE /\ files' = files
                        /\ log' = Append(log, Event("COPY_STARTING_TREE", i, "copyfile",
                                                    input_args.starting_tree, FALSE))
                        /\ pc' = "Failed"
                        /\ exit_reason' = MsgCopyError
              ELSE \E exit_zero \in BOOLEAN :
                      IF ~ exit_zero
                      THEN /\ files' = files
                           /\ log' = Append(log, Event("BUILD_TREE", i, switched[1],
                                                       previous_argument, FALSE))
                           /\ pc' = "Failed"
                           /\ exit_reason' = MsgBuild
                      ELSE \E built_tree \in BuiltTrees(input_args.converge_method) :
                              /\ files' = Put(files, name, built_tree)
                              /\ log' = Append(log, Event("BUILD_TREE", i, switched[1],
                                                          previous_argument, TRUE))
                              /\ pc' = "Reroot"
                              /\ exit_reason' = exit_reason
    /\ UNCHANGED << input_args, alignment_file, starting_tree_file, stale_intermediate, i,
                    sequence_reconstructor, tree_file_names, temp_working_dir, printed,
                    output_filenames_to_final_filenames >>

\* lines 390-394: reroot_tree chooses the rerooting by the outgroup option
RerootMethod(outgroups) ==
    IF Truthy(outgroups) THEN "reroot_tree_with_outgroup" ELSE "reroot_tree_at_midpoint"

\* lines 197-203: the tree is rerooted in place (its bipartitions stay), and a
\* rooted copy is written to the scratch directory
Reroot ==
    /\ pc = "Reroot"
    /\ files' = Put(files, InTemp(current_tree_name \o << ".rooted" >>), files[current_tree_name])
    /\ log' = Append(log, Event("REROOT", i, RerootMethod(input_args.outgroup), current_tree_name, TRUE))
    /\ pc' = "Reconstruct"
    /\ UNCHANGED << input_args, alignment_file, starting_tree_file, stale_intermediate, i,
                    tree_builder, sequence_reconstructor, alignment_suffix, current_tree_name,
                    tree_file_names, temp_working_dir, printed,
                    output_filenames_to_final_filenames, exit_reason >>

\* lines 205-226: the ancestral sequences are reconstructed
Reconstruct ==
    /\ pc = "Reconstruct"
    /\ \E exit_zero \in BOOLEAN :
          IF ~ exit_zero
          THEN Exit(MsgReconstruct, Event("RECONSTRUCT_ANCESTRAL", i, sequence_reconstructor,
                                          base_filename \o << alignment_suffix >>, FALSE))
          ELSE /\ pc' = "TransferLabels"
               /\ log' = Append(log, Event("RECONSTRUCT_ANCESTRAL", i, sequence_reconstructor,
                                           base_filename \o << alignment_suffix >>, TRUE))
               /\ UNCHANGED << input_args, alignment_file, starting_tree_file, stale_intermediate,
                               i, tree_builder, sequence_reconstructor, alignment_suffix,
                               current_tree_name, tree_file_names, temp_working_dir, files,
                               printed, output_filenames_to_final_filenames, exit_reason >>

\* a faulty stage: the gaps are not reinserted, the detector runs next
TransferLabelsThenDetect ==
    /\ pc = "TransferLabels"
    /\ files' = Put(files, current_tree_name \o << ".internal" >>,
                    WithInternalLabels(files[InTemp(current_tree_name \o << ".rooted" >>)]))
    /\ log' = Append(log, Event("TRANSFER_LABELS", i, sequence_reconstructor,
                                current_tree_name \o << ".internal" >>, TRUE))
    /\ pc' = "DetectRecombination"
    /\ UNCHANGED << input_args, alignment_file, starting_tree_file, stale_intermediate, i,
                    tree_builder, sequence_reconstructor, alignment_suffix, current_tree_name,
                    tree_file_names, temp_working_dir, printed,
                    output_filenames_to_final_filenames, exit_reason >>

\* lines 228-236: the ancestral sequences are joined to the given ones and the
\* internal labels are transferred to the rooted tree, written as "<tree>.internal"
TransferLabels ==
    /\ pc = "TransferLabels"
    /\ files' = Put(files, current_tree_name \o << ".internal" >>,
                    WithInternalLabels(files[InTemp(current_tree_name \o << ".rooted" >>)]))
    /\ log' = Append(log, Event("TRANSFER_LABELS", i, sequence_reconstructor,
                                current_tree_name \o << ".internal" >>, TRUE))
    /\ pc' = "ReinsertGaps"
    /\ UNCHANGED << input_args, alignment_file, starting_tree_file, stale_intermediate, i,
                    tree_builder, sequence_reconstructor, alignment_suffix, current_tree_name,
                    tree_file_names, temp_working_dir, printed,
                    output_filenames_to_final_filenames, exit_reason >>

\* lines 238-246: the gaps are reinserted and the resulting alignment is checked
ReinsertGaps ==
    /\ pc = "ReinsertGaps"
    /\ \E is_there \in BOOLEAN, is_valid \in BOOLEAN :
          IF ~ is_there \/ ~ is_valid
          THEN Exit(MsgGaps, Event("REINSERT_GAPS", i, "reinsert_gaps_into_fasta_file",
                                   gaps_alignment_filename, FALSE))
          ELSE /\ pc' = "DetectRecombination"
               /\ log' = Append(log, Event("REINSERT_GAPS", i, "reinsert_gaps_into_fasta_file",
                                           gaps_alignment_filename, TRUE))
               /\ UNCHANGED << input_args, alignment_file, starting_tree_file, stale_intermediate,
                               i, tree_builder, sequence_reconstructor, alignment_suffix,
                               current_tree_name, tree_file_names, temp_working_dir, files,
                               printed, output_filenames_to_final_filenames, exit_reason >>

\* lines 248-260: the labelled tree is copied to the tree name, the detector
\* runs on it, and the tree is copied back to "<tree>.internal"
DetectRecombination ==
    /\ pc = "DetectRecombination"
    /\ LET internal == current_tree_name \o << ".internal" >>
           copied == Put(files, current_tree_name, files[internal])
       IN  \E exit_zero \in BOOLEAN :
              IF ~ exit_zero
              THEN /\ files' = copied
                   /\ log' = Append(log, Event("DETECT_RECOMBINATION", i, "gubbins",
                                               current_tree_name, FALSE))
                   /\ pc' = "Failed"
                   /\ exit_reason' = MsgDetect
              ELSE \E missing \in TabMayBeMissing(input_args.converge_method),
                      tab \in DetectorTabs(input_args.converge_method) :
                      /\ files' = IF missing THEN copied
                                  ELSE Put(copied, current_tree_name \o << ".tab" >>, tab)
                      /\ log' = Append(log, Event("DETECT_RECOMBINATION", i, "gubbins",
                                                  current_tree_name, TRUE))
                      /\ pc' = "CheckConvergence"
                      /\ exit_reason' = exit_reason
    /\ UNCHANGED << input_args, alignment_file, starting_tree_file, stale_intermediate, i,
                    tree_builder, sequence_reconstructor, alignment_suffix, current_tree_name,
                    tree_file_names, temp_working_dir, printed,
                    output_filenames_to_final_filenames >>

\* lines 266-275: the convergence test of iteration n: << was a test evaluated, its result >>
ConvergenceTest(n, converge_method, fs, names) ==
    IF n > 1
    THEN IF converge_method = "recombination"
         THEN << TRUE, have_recombinations_been_seen_before(
                           fs, get_recombination_files(names)[1], get_recombination_files(names)[2]) >>
         ELSE << TRUE, has_tree_been_seen_before(fs, names, converge_method) >>
    ELSE << FALSE, FALSE >>

\* lines 262-276: the internal labels are removed from the tree, its name joins
\* the history, and from iteration 2 on the convergence test decides on a break
CheckConvergence ==
    /\ pc = "CheckConvergence"
    /\ LET stripped == Put(files, current_tree_name,
                            remove_internal_node_labels_from_tree(
                                files[current_tree_name \o << ".internal" >>]))
           names == Append(tree_file_names, current_tree_name)
           test == ConvergenceTest(i, input_args.converge_method, stripped, names)
           message == IF input_args.converge_method = "recombination"
                      THEN MsgConvergedRecombinations ELSE MsgConvergedTree
       IN  /\ files' = stripped
           /\ tree_file_names' = names
           /\ log' = Append(log, Event("CHECK_CONVERGENCE", i,
                                       IF test[1] THEN input_args.converge_method ELSE "none",
                                       current_tree_name, test[2]))
           /\ IF test[2]
              THEN /\ printed' = Append(printed, message)
                   /\ pc' = "Finalize"
              ELSE /\ printed' = printed
                   /\ pc' = "LoopHead"
    /\ UNCHANGED << input_args, alignment_file, starting_tree_file, stale_intermediate, i,
                    tree_builder, sequence_reconstructor, alignment_suffix, current_tree_name,
                    temp_working_dir, output_filenames_to_final_filenames, exit_reason >>

\* lines 281-287: the working files of the current tree name are renamed to the final names
\* (the name is str(current_tree_name): the starting tree's, or "None", when no iteration ran)
Finalize ==
    /\ pc = "Finalize"
    /\ LET prefix == IF input_args.prefix = None THEN basename ELSE input_args.prefix
       IN  /\ input_args' = [input_args EXCEPT !.prefix = prefix]
           /\ output_filenames_to_final_filenames' =
                  translation_of_filenames_to_final_filenames(current_tree_name, prefix)
           /\ files' = rename_files(files, output_filenames_to_final_filenames')
           /\ log' = Append(log, Event("FINALIZE", i, "rename_files", current_tree_name, TRUE))
    /\ pc' = "Cleanup"
    /\ UNCHANGED << alignment_file, starting_tree_file, stale_intermediate, i,
                    tree_builder, sequence_reconstructor, alignment_suffix, current_tree_name,
                    tree_file_names, temp_working_dir, printed, exit_reason >>

\* is prefix a prefix of the name
StartsWith(name, prefix) ==
    Len(prefix) <= Len(name) /\ SubSeq(name, 1, Len(prefix)) = prefix

\* a faulty test of the option: the files are removed whatever the option
CleansUpAlways(no_cleanup) == TRUE

\* line 290: are the intermediate files removed
CleansUp(no_cleanup) == ~ no_cleanup

\* lines 289-294: unless no_cleanup is set, the scratch directory, the files
\* of the earlier iterations and the starting files are removed
Cleanup ==
    /\ pc = "Cleanup"
    /\ IF CleansUp(input_args.no_cleanup)
       THEN LET earlier == SubSeq(tree_file_names, 1, Len(tree_file_names) - 1)
                kept == { n \in DOMAIN files :
                             /\ ~ StartsWith(n, TempDirName)
                             /\ ~ \E k \in 1..Len(earlier) : StartsWith(n, earlier[k])
                             /\ ~ StartsWith(n, base_filename) }
            IN  /\ temp_working_dir' = FALSE
                /\ files' = [n \in kept |-> files[n]]
                /\ log' = Append(log, Event("CLEANUP", i, "delete_files", current_tree_name, TRUE))
       ELSE /\ UNCHANGED << temp_working_dir, files, log >>
    /\ pc' = "Done"
    /\ UNCHANGED << input_args, alignment_file, starting_tree_file, stale_intermediate, i,
                    tree_builder, sequence_reconstructor, alignment_suffix, current_tree_name,
                    tree_file_names, printed, output_filenames_to_final_filenames, exit_reason >>

Next ==
    \/ CheckDependencies
    \/ Validate
    \/ CheckIntermediate
    \/ Preprocess
    \/ DetectSnps
    \/ LoopHead
    \/ BuildTree
    \/ Reroot
    \/ Reconstruct
    \/ TransferLabels
    \/ ReinsertGaps
    \/ DetectRecombination
    \/ CheckConvergence
    \/ Finalize
    \/ Cleanup

Spec == Init /\ [][Next]_vars

---------------------------------------------------------------------------
(* Properties of the driver *)

\* the indices of the history's entries of one stage
EventsOf(stage) == { k \in 1..Len(log) : log[k].stage = stage }

\* the place of a stage in an iteration, 0 for a stage outside the loop
StageIndex(stage) ==
    CASE stage \in { "BUILD_TREE", "COPY_STARTING_TREE" } -> 1
      [] stage = "REROOT" -> 2
      [] stage = "RECONSTRUCT_ANCESTRAL" -> 3
      [] stage = "TRANSFER_LABELS" -> 4
      [] stage = "REINSERT_GAPS" -> 5
      [] stage = "DETECT_RECOMBINATION" -> 6
      [] stage = "CHECK_CONVERGENCE" -> 7
      [] OTHER -> 0

\* the convergence check of iteration i was the last stage run (the loop may
\* have been left by exhaustion since)
JustChecked ==
    /\ Len(log) > 0
    /\ log[Len(log)].stage = "CHECK_CONVERGENCE"
    /\ pc \in { "LoopHead", "Finalize" }

\* the loop has been left (by a break or by exhaustion), the run was not aborted
LoopLeft == pc \in { "Finalize", "Cleanup", "Done" }

\* some convergence check of the run returned true
SomeCheckTrue == \E k \in EventsOf("CHECK_CONVERGENCE") : log[k].result

\* C1: the stages of an iteration run in the order BUILD_TREE (or the copy of
\* the starting tree), REROOT, RECONSTRUCT_ANCESTRAL, TRANSFER_LABELS,
\* REINSERT_GAPS, DETECT_RECOMBINATION, CHECK_CONVERGENCE, each stage right
\* after the success of the one before it in the same iteration; the first
\* stage of iteration n + 1 runs right after the CHECK_CONVERGENCE of
\* iteration n; VALIDATE and PREPROCESS come before iteration 1; FINALIZE
\* comes right after the CHECK_CONVERGENCE of the last iteration run (or, with
\* no iteration at all, after the stages before the loop), and no stage of an
\* iteration follows it.
C1_StageOrder ==
    \A k \in 1..Len(log) :
        LET e == log[k]
            p == log[k - 1]
        IN  /\ StageIndex(e.stage) > 1 =>
                  /\ k > 1
                  /\ StageIndex(p.stage) = StageIndex(e.stage) - 1
                  /\ p.i = e.i
                  /\ p.result
            /\ StageIndex(e.stage) = 1 /\ e.i > 1 =>
                  /\ k > 1
                  /\ p.stage = "CHECK_CONVERGENCE"
                  /\ p.i = e.i - 1
            /\ StageIndex(e.stage) = 1 /\ e.i <= 1 =>
                  /\ e.i = 1
                  /\ k > 1
                  /\ p.stage = "DETECT_SNPS"
                  /\ \E a, b \in 1..(k - 1) :
                        /\ a < b
                        /\ log[a].stage = "VALIDATE"
                        /\ log[b].stage = "PREPROCESS"
            /\ e.stage = "FINALIZE" =>
                  /\ k > 1
                  /\ \/ p.stage = "CHECK_CONVERGENCE" /\ p.i = e.i /\ e.i = i
                     \/ p.stage = "DETECT_SNPS" /\ e.i = 0
                  /\ \A m \in (k + 1)..Len(log) : StageIndex(log[m].stage) = 0
                  /\ \A m \in 1..Len(log) : log[m].i <= e.i

\* a run of three iterations has been finalized
C1_Witness ==
    \E k \in EventsOf("FINALIZE") : log[k].i = 3 /\ Cardinality(EventsOf("CHECK_CONVERGENCE")) = 3

\* C2: the loop runs at most input_args.iterations iterations; when the loop
\* has been left and no convergence check returned true, exactly
\* input_args.iterations iterations were run and the only message printed is
\* that the maximum number of iterations was reached; that message is printed
\* only when no convergence check returned true.  (A run aborted by a fatal
\* error leaves the loop neither way and prints neither message.)
C2_IterationCap ==
    /\ i <= input_args.iterations
    /\ Cardinality({ k \in 1..Len(log) : StageIndex(log[k].stage) = 1 }) <= input_args.iterations
    /\ \A k \in 1..Len(log) : log[k].i <= input_args.iterations
    /\ LoopLeft /\ ~ SomeCheckTrue =>
          /\ i = input_args.iterations
          /\ Cardinality(EventsOf("CHECK_CONVERGENCE")) = input_args.iterations
          /\ \A n \in 1..input_args.iterations :
                \E k \in EventsOf("CHECK_CONVERGENCE") : log[k].i = n
          /\ printed = << MsgMaxIterations >>
    /\ (\E m \in 1..Len(printed) : printed[m] = MsgMaxIterations) => ~ SomeCheckTrue
    /\ pc = "Failed" => printed = << >>

\* a run of three iterations with no convergence ended by exhaustion
C2_Witness ==
    /\ pc = "Done"
    /\ input_args.iterations = 3
    /\ input_args.converge_method = "recombination"
    /\ ~ SomeCheckTrue
    /\ printed = << MsgMaxIterations >>

\* the stages that run an external program or check its output, with the exit
\* message of each
ExternalStages ==
    { "DETECT_SNPS", "BUILD_TREE", "RECONSTRUCT_ANCESTRAL", "REINSERT_GAPS", "DETECT_RECOMBINATION" }
ExitMessageOf(stage) ==
    CASE stage = "DETECT_SNPS" -> MsgSnps
      [] stage = "BUILD_TREE" -> MsgBuild
      [] stage = "RECONSTRUCT_ANCESTRAL" -> MsgReconstruct
      [] stage = "REINSERT_GAPS" -> MsgGaps
      [] stage = "DETECT_RECOMBINATION" -> MsgDetect

\* the input checks of the run passed (the four checks of the input files and
\* the check for intermediate files of a previous run, lines 86-121)
InputsPassedValidation ==
    /\ \E k \in EventsOf("VALIDATE") : log[k].result
    /\ \E k \in EventsOf("CHECK_INTERMEDIATE") : log[k].result

\* every external invocation so far exited with status zero and every
\* gap-reinserted alignment passed its check
ExternalsSucceeded ==
    \A k \in 1..Len(log) : log[k].stage \in ExternalStages => log[k].result

\* C3: a run whose inputs pass validation, whose external invocations all exit
\* with status zero and whose gap-reinserted alignments are all valid ends
\* finalized: it does not end in a failure, the iteration of the first true
\* convergence check is the last one run, and the final renaming is done
\* exactly once.
C3_ReachesFinalize ==
    /\ pc = "Failed" => ~ (InputsPassedValidation /\ ExternalsSucceeded)
    /\ pc = "Done" =>
          /\ Cardinality(EventsOf("FINALIZE")) = 1
          /\ \A k \in EventsOf("CHECK_CONVERGENCE") : log[k].result => log[k].i = i

\* C4: when an external invocation exits non-zero, or the gap-reinserted
\* alignment is missing or invalid, the run is at once in the terminal
\* failure state with the message of that stage: the failed stage is the last
\* stage of the run (no retry, no later stage, no convergence check, no
\* FINALIZE), nothing was renamed, the scratch directory was not removed, and
\* no step is possible.
C4_FailureIsTerminal ==
    \A k \in 1..Len(log) :
        log[k].stage \in ExternalStages /\ ~ log[k].result =>
            /\ k = Len(log)
            /\ pc = "Failed"
            /\ exit_reason = ExitMessageOf(log[k].stage)
            /\ Cardinality(EventsOf(log[k].stage) \cap { m \in 1..Len(log) : log[m].i = log[k].i }) = 1
            /\ EventsOf("FINALIZE") = {}
            /\ EventsOf("CLEANUP") = {}
            /\ output_filenames_to_final_filenames = {}
            /\ temp_working_dir
            /\ printed = << >>
            /\ ~ ENABLED Next

\* the detector failed in the second iteration
C4_Witness ==
    /\ pc = "Failed"
    /\ exit_reason = MsgDetect
    /\ i = 2

\* one of the failures of the inputs: the alignment is missing or invalid, a
\* given starting tree is missing or invalid or has a leaf that is no sequence
\* of the alignment, or the alignment has fewer than 3 sequences
BadInput ==
    \/ ~ alignment_file.exists
    \/ ~ alignment_file.valid
    \/ Truthy(input_args.starting_tree) /\ ~ starting_tree_file.exists
    \/ Truthy(input_args.starting_tree) /\ ~ starting_tree_file.valid
    \/ Truthy(input_args.starting_tree) /\ starting_tree_file.leaves \ alignment_file.names # {}
    \/ Cardinality(alignment_file.names) < 3

\* C5: with such an input the run fails in the input check, with one of its
\* four messages, before any processing: no scratch directory is made, no
\* file is written or deleted, nothing is filtered and no external program is
\* run.
C5_PreconditionFailure ==
    BadInput =>
        /\ pc \in { "CheckDependencies", "Validate", "Failed" }
        /\ \A k \in 1..Len(log) : log[k].stage \in { "DEPENDENCIES", "VALIDATE" }
        /\ EventsOf("VALIDATE") # {} =>
              /\ pc = "Failed"
              /\ exit_reason \in { MsgAlignment, MsgStartingTree, MsgNames, MsgTooFew }
        /\ ~ temp_working_dir
        /\ DOMAIN files = {}
        /\ input_args.alignment_filename = base_filename

\* the run failed on a starting tree with a leaf that is not in the alignment
C5_Witness ==
    /\ pc = "Failed"
    /\ exit_reason = MsgNames
    /\ starting_tree_file.leaves \ alignment_file.names # {}

\* the tree builder has just been run
JustBuilt == Len(log) > 0 /\ log[Len(log)].stage = "BUILD_TREE"

\* C6: with a starting tree given, iteration 1 runs no tree builder: the
\* starting tree filtered into the scratch directory is copied to the tree
\* name of iteration 1; every iteration from the second on starts with an
\* invocation of the tree builder, and that invocation is given the tree file
\* of the iteration before (the last name of the history, a file that is
\* there) as its previous tree.
C6_StartingTreeThenBuilder ==
    /\ Truthy(input_args.starting_tree) =>
          /\ \A k \in EventsOf("BUILD_TREE") : log[k].i # 1
          /\ \A k \in EventsOf("COPY_STARTING_TREE") :
                /\ log[k].i = 1
                /\ log[k].arg = InTemp(UserTreePath)
                /\ log[k].result
          /\ \A k \in EventsOf("REROOT") :
                log[k].i = 1 => log[k - 1].stage = "COPY_STARTING_TREE"
          /\ pc = "Reroot" /\ i = 1 =>
                /\ InTemp(UserTreePath) \in DOMAIN files
                /\ CurrentTreeName(1) \in DOMAIN files
                /\ files[CurrentTreeName(1)] = starting_tree_file.tree
    /\ \A k \in EventsOf("REROOT") :
          log[k].i >= 2 => log[k - 1].stage = "BUILD_TREE" /\ log[k - 1].i = log[k].i
    /\ \A k \in EventsOf("COPY_STARTING_TREE") : log[k].i = 1
    /\ \A k \in EventsOf("BUILD_TREE") :
          log[k].i >= 2 =>
              log[k].arg = basename \o << ".iteration_", Str(log[k].i - 1), ".tre" >>
    /\ JustBuilt /\ i >= 2 =>
          /\ log[Len(log)].arg \in DOMAIN files
          /\ log[Len(log)].arg = tree_file_names[Len(tree_file_names)]

\* a run with a starting tree has built the tree of iteration 3
C6_Witness ==
    /\ Truthy(input_args.starting_tree)
    /\ EventsOf("COPY_STARTING_TREE") # {}
    /\ \E k \in EventsOf("BUILD_TREE") : log[k].i = 3 /\ log[k].result

\* the renaming of the working files of iteration 1 to the final names of the
\* prefix of the run (set by the final step), entry by entry
FinalNamesOfIteration1 ==
    { << << "aln", ".iteration_", "1", ".tre", ".vcf" >>, input_args.prefix \o << ".summary_of_snp_distribution.vcf" >> >>,
      << << "aln", ".iteration_", "1", ".tre", ".branch_snps.tab" >>, input_args.prefix \o << ".branch_base_reconstruction.embl" >> >>,
      << << "aln", ".iteration_", "1", ".tre", ".tab" >>, input_args.prefix \o << ".recombination_predictions.embl" >> >>,
      << << "aln", ".iteration_", "1", ".tre", ".gff" >>, input_args.prefix \o << ".recombination_predictions.gff" >> >>,
      << << "aln", ".iteration_", "1", ".tre", ".stats" >>, input_args.prefix \o << ".per_branch_statistics.csv" >> >>,
      << << "aln", ".iteration_", "1", ".tre", ".snp_sites.aln" >>, input_args.prefix \o << ".filtered_polymorphic_sites.fasta" >> >>,
      << << "aln", ".iteration_", "1", ".tre", ".phylip" >>, input_args.prefix \o << ".filtered_polymorphic_sites.phylip" >> >>,
      << << "aln", ".iteration_", "1", ".tre", ".internal" >>, input_args.prefix \o << ".node_labelled.final_tree.tre" >> >>,
      << << "aln", ".iteration_", "1", ".tre" >>, input_args.prefix \o << ".final_tree.tre" >> >> }

\* C7: a successful run with a starting tree, iterations = 1 and no outgroup
\* has run no tree builder, one ancestral reconstruction and one recombination
\* detection, has evaluated no convergence test, has left the loop by
\* exhaustion, and has renamed exactly the 9 working files of iteration 1 to
\* the 9 final names of the prefix.
C7_SingleIterationWithStartingTree ==
    /\ pc = "Done"
    /\ Truthy(input_args.starting_tree)
    /\ input_args.iterations = 1
    /\ input_args.outgroup = None
    => /\ EventsOf("BUILD_TREE") = {}
       /\ Cardinality(EventsOf("COPY_STARTING_TREE")) = 1
       /\ Cardinality(EventsOf("RECONSTRUCT_ANCESTRAL")) = 1
       /\ Cardinality(EventsOf("DETECT_RECOMBINATION")) = 1
       /\ \A k \in EventsOf("REROOT") : log[k].tool = "reroot_tree_at_midpoint"
       /\ \A k \in EventsOf("CHECK_CONVERGENCE") : log[k].tool = "none" /\ ~ log[k].result
       /\ printed = << MsgMaxIterations >>
       /\ Cardinality(EventsOf("FINALIZE")) = 1
       /\ output_filenames_to_final_filenames = FinalNamesOfIteration1
       /\ Cardinality({ r[1] : r \in output_filenames_to_final_filenames }) = 9
       /\ Cardinality({ r[2] : r \in output_filenames_to_final_filenames }) = 9

\* such a run has ended
C7_Witness ==
    /\ pc = "Done"
    /\ Truthy(input_args.starting_tree)
    /\ input_args.iterations = 1
    /\ input_args.outgroup = None
    /\ output_filenames_to_final_filenames # {}

\* C8 as claimed: in hybrid mode the tool that builds the tree and the tool
\* that reconstructs the ancestral sequences in an iteration i >= 2 both differ
\* from the tools chosen for iteration 1.
C8_BothToolsSwitched ==
    input_args.tree_builder = "hybrid" =>
        /\ \A k \in EventsOf("BUILD_TREE") :
              log[k].i >= 2 => log[k].tool # InitialTools("hybrid")[1]
        /\ \A k \in EventsOf("RECONSTRUCT_ANCESTRAL") :
              log[k].i >= 2 => log[k].tool # InitialTools("hybrid")[2]

\* C8, amended: in hybrid mode the tree-building tool is switched after
\* iteration 1 and the switch is never undone: a tree built in iteration 1 is
\* built by FastTree, a tree built in any iteration i >= 2 by RAxML; the
\* ancestral-reconstruction tool is not switched: it is RAxML in every
\* iteration.
C8_TreeBuilderSwitched ==
    input_args.tree_builder = "hybrid" =>
        /\ \A k \in EventsOf("BUILD_TREE") :
              /\ log[k].i = 1 => log[k].tool = FastTree
              /\ log[k].i >= 2 => log[k].tool = RAxML
        /\ \A k \in EventsOf("RECONSTRUCT_ANCESTRAL") : log[k].tool = RAxML
        /\ i >= 2 /\ pc # "BuildTree" => tree_builder = RAxML /\ alignment_suffix = ".phylip"
        /\ (i = 1 \/ (i = 2 /\ pc = "BuildTree")) =>
              tree_builder = FastTree /\ alignment_suffix = ".snp_sites.aln"

\* a hybrid run has built trees in iterations 1, 2 and 3
C8_Witness ==
    /\ input_args.tree_builder = "hybrid"
    /\ \A n \in 1..3 : \E k \in EventsOf("BUILD_TREE") : log[k].i = n /\ log[k].result
    /\ \E k \in EventsOf("RECONSTRUCT_ANCESTRAL") : log[k].i = 3

---------------------------------------------------------------------------
(* Properties of the recombination-identity test *)

\* the recombination file of iteration n
TabName(n) == CurrentTreeName(n) \o << ".tab" >>

\* the recombinations a file lists: a feature line and the first taxa line
\* after it, with nothing but other lines between the two
Blocks(lines) ==
    { b \in (1..Len(lines)) \X (1..Len(lines)) :
         /\ b[1] < b[2]
         /\ lines[b[1]].kind = "feature"
         /\ lines[b[2]].kind = "taxa"
         /\ \A m \in (b[1] + 1)..(b[2] - 1) : lines[m].kind = "other" }

TaxaOfLine(line) == { line.taxa[m] : m \in 1..Len(line.taxa) }

\* the taxa a file lists recombinations for
ListedTaxa(lines) == UNION { TaxaOfLine(lines[b[2]]) : b \in Blocks(lines) }

\* the feature lines of the recombinations of taxon t
FeaturesOf(lines, t) == { b[1] : b \in { c \in Blocks(lines) : t \in TaxaOfLine(lines[c[2]]) } }

\* the intervals of taxon t, as a collection without order
IntervalSet(lines, t) == { << lines[f].start, lines[f].end >> : f \in FeaturesOf(lines, t) }

\* the intervals of taxon t in the order of the file
IntervalList(lines, t) ==
    LET features == FeaturesOf(lines, t)
        n == Cardinality(features)
        order == CHOOSE f \in [1..n -> features] : \A a, b \in 1..n : a < b => f[a] < f[b]
    IN  [m \in 1..n |-> << lines[order[m]].start, lines[order[m]].end >>]

\* the taxon -> interval-list map of a file
RecombinationTrack(lines) == [t \in ListedTaxa(lines) |-> IntervalList(lines, t)]

\* the same taxa and for each taxon the same intervals, in any order
SameCollections(l1, l2) ==
    /\ ListedTaxa(l1) = ListedTaxa(l2)
    /\ \A t \in ListedTaxa(l1) :
          /\ IntervalSet(l1, t) = IntervalSet(l2, t)
          /\ Cardinality(FeaturesOf(l1, t)) = Cardinality(FeaturesOf(l2, t))

\* the same taxa and for each taxon the same intervals in the same order
SameLists(l1, l2) ==
    /\ ListedTaxa(l1) = ListedTaxa(l2)
    /\ \A t \in ListedTaxa(l1) : IntervalList(l1, t) = IntervalList(l2, t)

\* the recombination-identity test of iteration i >= 2 has just been made on an
\* existing current file
JustTestedRecombinations ==
    /\ JustChecked
    /\ input_args.converge_method = "recombination"
    /\ i >= 2
    /\ TabName(i) \in DOMAIN files

\* the earlier iterations whose recombination file exists
EarlierTabs == { j \in 1..(i - 1) : TabName(j) \in DOMAIN files }

\* C9 as claimed: the current listing matches an earlier one whenever the two
\* have the same taxa and for each taxon the same collection of intervals,
\* whatever the order of the intervals in the two files.
C9_OrderIndependent ==
    JustTestedRecombinations =>
        ((\E j \in EarlierTabs : SameCollections(files[TabName(j)], files[TabName(i)]))
            => log[Len(log)].result)

\* C9, amended: the current listing matches an earlier one whenever the two
\* have the same taxa and for each taxon the same intervals in the same order
\* of appearance; the test is not invariant under a permutation of the
\* intervals of a taxon: when every existing earlier listing has the same
\* collections as the current one but lists some taxon's intervals in another
\* order, there is no match.
C9_OrderDependent ==
    JustTestedRecombinations =>
        /\ (\E j \in EarlierTabs : SameLists(files[TabName(j)], files[TabName(i)]))
              => log[Len(log)].result
        /\ (\A j \in EarlierTabs :
               /\ SameCollections(files[TabName(j)], files[TabName(i)])
               /\ ~ SameLists(files[TabName(j)], files[TabName(i)]))
              => ~ log[Len(log)].result

\* iteration 3 lists what iteration 1 listed, in the same order, and iteration
\* 2 listed the same intervals in the other order
C9_Witness ==
    /\ JustTestedRecombinations
    /\ i = 3
    /\ EarlierTabs = { 1, 2 }
    /\ files[TabName(1)] = RecombFileTwoPermuted
    /\ files[TabName(2)] = RecombFileTwo
    /\ files[TabName(3)] = RecombFileTwoPermuted
    /\ log[Len(log)].result

\* C10: in recombination-identity mode the check of an iteration i >= 2
\* signals convergence (the loop is left with the message of the
\* recombinations seen before) if and only if the current file exists and its
\* taxon -> interval-list map is the map of the existing file of some earlier
\* iteration, any of 1..i-1; missing earlier files are skipped, a missing
\* current file gives no convergence, and iteration 1 makes no test.
C10_RecombinationIdentity ==
    JustChecked /\ input_args.converge_method = "recombination" =>
        LET e == log[Len(log)]
            seen == /\ TabName(i) \in DOMAIN files
                    /\ \E j \in EarlierTabs :
                          RecombinationTrack(files[TabName(j)]) = RecombinationTrack(files[TabName(i)])
        IN  /\ e.i = i
            /\ i >= 2 => (e.result <=> seen) /\ e.tool = "recombination"
            /\ i = 1 => ~ e.result /\ e.tool = "none"
            /\ e.result => pc = "Finalize" /\ printed = << MsgConvergedRecombinations >>
            /\ ~ e.result =>
                  \/ pc = "LoopHead" /\ printed = << >>
                  \/ pc = "Finalize" /\ printed = << MsgMaxIterations >> /\ i = input_args.iterations

\* iteration 3 matches iteration 1, whose file differs as a text, while the
\* file of iteration 2 is missing
C10_Witness ==
    /\ JustTestedRecombinations
    /\ i = 3
    /\ EarlierTabs = { 1 }
    /\ files[TabName(1)] = RecombFileTwo
    /\ files[TabName(3)] = RecombFileTwoNoisy
    /\ log[Len(log)].result
    /\ pc = "Finalize"

---------------------------------------------------------------------------
(* The convergence tests called on their own: any history of tree names,   *)
(* any of the named files present or missing                               *)

\* trees with an internal edge of length zero
TreeZeroAB == [ s \in { "AB|CD", "A|BCD" } |-> IF s = "AB|CD" THEN 0 ELSE 1 ]
TreeZeroAC == [ s \in { "AC|BD", "A|BCD" } |-> IF s = "AC|BD" THEN 0 ELSE 1 ]
TreeFileContents == Trees \cup { TreeZeroAB, TreeZeroAC }

\* the history of tree names after n iterations
HistoryOf(n) == [k \in 1..n |-> CurrentTreeName(k)]

\* the disks on which some of the files names[k] + suffix exist
Disks(names, suffix, contents) ==
    UNION { [ { names[k] \o suffix : k \in S } -> contents ] : S \in SUBSET (1..Len(names)) }

\* the arguments of a run that uses the convergence method
ArgsWithMethod(method) ==
    [ iterations |-> MaxIterations, tree_builder |-> "raxml", starting_tree |-> None,
      converge_method |-> method, no_cleanup |-> FALSE, outgroup |-> None, prefix |-> None,
      alignment_filename |-> base_filename ]

\* the state of the locals of the driver that a function called on its own does not read
LocalsIdle ==
    /\ alignment_file = [exists |-> TRUE, valid |-> TRUE, names |-> { "A", "B", "C", "D" }]
    /\ starting_tree_file = NoTreeFile
    /\ stale_intermediate = FALSE
    /\ tree_builder = RAxML
    /\ sequence_reconstructor = RAxML
    /\ alignment_suffix = ".phylip"
    /\ temp_working_dir = FALSE
    /\ log = << >>
    /\ printed = << >>
    /\ output_filenames_to_final_filenames = {}
    /\ exit_reason = ""

InitConvergence ==
    /\ pc \in { "has_tree_been_seen_before", "have_recombinations_been_seen_before" }
    /\ \E method \in ConvergeMethods :
          /\ pc = "have_recombinations_been_seen_before" => method = "recombination"
          /\ input_args = ArgsWithMethod(method)
    /\ \E n \in 1..MaxIterations :
          /\ i = n
          /\ tree_file_names = HistoryOf(n)
          /\ current_tree_name = CurrentTreeName(n)
    /\ files \in IF pc = "has_tree_been_seen_before"
                 THEN Disks(tree_file_names, << >>, TreeFileContents)
                 ELSE Disks(tree_file_names, << ".tab" >>, RecombFiles)
    /\ LocalsIdle

\* a faulty get_recombination_files: the current name is popped from the list given
basenames_popped(basenames) == SubSeq(basenames, 1, Len(basenames) - 1)

\* lines 584-589: the list given to get_recombination_files after the call (the
\* function appends to and pops from a list of its own)
basenames_after_get_recombination_files(basenames) == basenames

\* one call returns: the history entry holds the list and the disk before the call
Returns(function, names_before, result) ==
    /\ log' = Append(log, Event(function, i, input_args.converge_method,
                                [names |-> names_before, disk |-> files], result))
    /\ pc' = IF Len(log) = 1 THEN "Returned" ELSE pc
    /\ UNCHANGED << input_args, alignment_file, starting_tree_file, stale_intermediate, i,
                    tree_builder, sequence_reconstructor, alignment_suffix, current_tree_name,
                    temp_working_dir, files, printed, output_filenames_to_final_filenames,
                    exit_reason >>

\* lines 635-657: has_tree_been_seen_before is called (twice in a row)
CallHasTreeBeenSeenBefore ==
    /\ pc = "has_tree_been_seen_before"
    /\ tree_file_names' = tree_file_names
    /\ Returns("has_tree_been_seen_before", tree_file_names,
               has_tree_been_seen_before(files, tree_file_names, input_args.converge_method))

\* lines 268-269: get_recombination_files and have_recombinations_been_seen_before
\* are called (twice in a row)
CallHaveRecombinationsBeenSeenBefore ==
    /\ pc = "have_recombinations_been_seen_before"
    /\ tree_file_names' = basenames_after_get_recombination_files(tree_file_names)
    /\ Returns("have_recombinations_been_seen_before", tree_file_names,
               have_recombinations_been_seen_before(
                   files, get_recombination_files(tree_file_names)[1],
                   get_recombination_files(tree_file_names)[2]))

SpecConvergence ==
    InitConvergence
    /\ [][CallHasTreeBeenSeenBefore \/ CallHaveRecombinationsBeenSeenBefore]_vars

---------------------------------------------------------------------------
(* Properties of the convergence tests *)

\* the function has been called on its own; its last entry
Returned(function) == Len(log) > 0 /\ log[Len(log)].stage = function

\* the places in the history of the tree files that exist on disk
ExistingTrees == { k \in 1..Len(tree_file_names) : tree_file_names[k] \in DOMAIN files }

\* the most recent existing tree file, and the existing one right before it
MostRecent == CHOOSE k \in ExistingTrees : \A m \in ExistingTrees : m <= k
Preceding ==
    CHOOSE k \in ExistingTrees \ { MostRecent } : \A m \in ExistingTrees \ { MostRecent } : m <= k

\* the distance of the configured method between the tree files at two places
TreeDistance(j, k) ==
    IF input_args.converge_method = "weighted_robinson_foulds"
    THEN robinson_foulds_distance(files[tree_file_names[j]], files[tree_file_names[k]])
    ELSE symmetric_difference(files[tree_file_names[j]], files[tree_file_names[k]])

\* C11 (as stated): with three or more tree files on disk, has_tree_been_seen_before
\* signals convergence exactly when the distance between the most recent tree
\* and the existing tree right before it is zero; a zero distance to an older
\* tree alone does not signal convergence.
C11_OnlyPrecedingTree ==
    Returned("has_tree_been_seen_before") /\ Cardinality(ExistingTrees) >= 3 =>
        (log[Len(log)].result <=> TreeDistance(Preceding, MostRecent) = 0)

\* C11 (amended): has_tree_been_seen_before compares the most recent existing
\* tree with every earlier tree file that exists on disk and, for a history
\* of three or more names, signals convergence exactly when at least one of
\* these distances is zero: a zero distance to an older, non-adjacent tree
\* signals convergence by itself.
C11_AnyEarlierTree ==
    Returned("has_tree_been_seen_before") =>
        (log[Len(log)].result <=>
            /\ Len(tree_file_names) >= 3
            /\ \E k \in ExistingTrees : k # MostRecent /\ TreeDistance(k, MostRecent) = 0)

\* the tree of iteration 3 is the tree of iteration 1 and not the tree of
\* iteration 2, all three files exist, and convergence is signalled
C11_Witness ==
    /\ Returned("has_tree_been_seen_before")
    /\ ExistingTrees = { 1, 2, 3 }
    /\ TreeDistance(1, 3) = 0
    /\ TreeDistance(2, 3) # 0
    /\ log[Len(log)].result

\* C12: in topological-distance mode has_tree_been_seen_before signals
\* convergence only when at least 3 of the recorded tree files exist on disk:
\* never for a history of one or two names (iterations 1 and 2), and never
\* when fewer than 3 of the recorded files still exist.
C12_NeedsThreeExistingTrees ==
    Returned("has_tree_been_seen_before") /\ log[Len(log)].result =>
        /\ i >= 3
        /\ Len(tree_file_names) >= 3
        /\ Cardinality(ExistingTrees) >= 3

\* do two trees give every bipartition the same edge length, a bipartition
\* that a tree does not have counting as an edge of length 0
SameEdgeLengths(t1, t2) ==
    \A s \in DOMAIN t1 \cup DOMAIN t2 : EdgeLength(t1, s) = EdgeLength(t2, s)

\* the earlier existing tree files, each to be compared with the most recent one
EarlierExistingTrees == { k \in ExistingTrees : k # MostRecent }

\* does the result of has_tree_been_seen_before follow the method selected by
\* converge_method: the weighted distance for 'weighted_robinson_foulds', the
\* symmetric difference for every other value
MethodSelected ==
    log[Len(log)].result <=>
        \E k \in EarlierExistingTrees :
            LET t1 == files[tree_file_names[k]]
                t2 == files[tree_file_names[MostRecent]]
            IN  IF input_args.converge_method = "weighted_robinson_foulds"
                THEN robinson_foulds_distance(t1, t2) = 0
                ELSE symmetric_difference(t1, t2) = 0

\* C13 (as stated): a tree compared with an identical tree has distance 0 under
\* both methods and signals convergence; two trees whose bipartition sets
\* differ have a nonzero distance under both methods; the method is selected
\* by converge_method only.
C13_DifferentBipartitionsNonzero ==
    Returned("has_tree_been_seen_before") /\ Len(tree_file_names) >= 3 =>
        /\ \A k \in EarlierExistingTrees :
              LET t1 == files[tree_file_names[k]]
                  t2 == files[tree_file_names[MostRecent]]
              IN  /\ t1 = t2 =>
                        /\ robinson_foulds_distance(t1, t2) = 0
                        /\ symmetric_difference(t1, t2) = 0
                        /\ log[Len(log)].result
                  /\ DOMAIN t1 # DOMAIN t2 =>
                        /\ robinson_foulds_distance(t1, t2) # 0
                        /\ symmetric_difference(t1, t2) # 0
        /\ MethodSelected

\* C13 (amended): a tree compared with an identical tree has distance 0 under
\* both methods and signals convergence; two trees whose bipartition sets
\* differ have a nonzero symmetric difference; their weighted distance is
\* nonzero exactly when some bipartition has different edge lengths in the two
\* trees (an absent bipartition counting as length 0), so trees that differ
\* only in bipartitions of edge length zero have weighted distance 0; the
\* method is selected by converge_method only.
C13_DistanceZero ==
    Returned("has_tree_been_seen_before") /\ Len(tree_file_names) >= 3 =>
        /\ \A k \in EarlierExistingTrees :
              LET t1 == files[tree_file_names[k]]
                  t2 == files[tree_file_names[MostRecent]]
              IN  /\ t1 = t2 =>
                        /\ robinson_foulds_distance(t1, t2) = 0
                        /\ symmetric_difference(t1, t2) = 0
                        /\ log[Len(log)].result
                  /\ DOMAIN t1 # DOMAIN t2 <=> symmetric_difference(t1, t2) # 0
                  /\ ~ SameEdgeLengths(t1, t2) <=> robinson_foulds_distance(t1, t2) # 0
        /\ MethodSelected

\* under the weighted method the most recent tree is the tree of iteration 2
\* and differs from the tree of iteration 1 in a bipartition of positive
\* length: convergence is signalled by the identical tree
C13_Witness ==
    /\ Returned("has_tree_been_seen_before")
    /\ input_args.converge_method = "weighted_robinson_foulds"
    /\ ExistingTrees = { 1, 2, 3 }
    /\ files[tree_file_names[2]] = files[tree_file_names[3]]
    /\ DOMAIN files[tree_file_names[1]] # DOMAIN files[tree_file_names[3]]
    /\ robinson_foulds_distance(files[tree_file_names[1]], files[tree_file_names[3]]) # 0
    /\ log[Len(log)].result

\* the entries of the calls of the convergence tests made on their own
ConvergenceCalls ==
    { k \in 1..Len(log) :
         log[k].stage \in { "has_tree_been_seen_before", "have_recombinations_been_seen_before" } }

---------------------------------------------------------------------------
(* reinsert_gaps_into_fasta_file: the gaps of the variant listing are put  *)
(* back into the sequences of the internal nodes                           *)

\* the largest number of data lines of a variant listing, and of residues of a record
MaxSites == 3

\* the lines of a VCF file: the "#CHROM" header with the sample names from
\* column 10 on, a data line (it starts with a digit) with its REF and ALT
\* fields as sequences of characters, or any other line
VcfHeader(samples) == [kind |-> "header", samples |-> samples, ref |-> << >>, alt |-> << >>]
VcfData(ref, alt) == [kind |-> "data", samples |-> << >>, ref |-> ref, alt |-> alt]
VcfOther == [kind |-> "other", samples |-> << >>, ref |-> << >>, alt |-> << >>]

\* the character classes [ACGTacgt] and [^ACGTacgt] applied to a whole field
IsSingleBase(field) ==
    Len(field) = 1 /\ field[1] \in { "A", "C", "G", "T", "a", "c", "g", "t" }
IsSingleNonBase(field) ==
    Len(field) = 1 /\ field[1] \notin { "A", "C", "G", "T", "a", "c", "g", "t" }

\* lines 534-550: the loop over the lines of the VCF file
RECURSIVE ParseVcfLines(_, _, _, _, _)
ParseVcfLines(lines, k, sample_names, gap_position, gap_alt_base) ==
    IF k > Len(lines)
    THEN [sample_names |-> sample_names, gap_position |-> gap_position, gap_alt_base |-> gap_alt_base]
    ELSE LET vcf_line == lines[k] IN
         IF vcf_line.kind = "header"
         THEN ParseVcfLines(lines, k + 1, vcf_line.samples, gap_position, gap_alt_base)
         ELSE IF vcf_line.kind = "data"
         THEN IF IsSingleBase(vcf_line.ref) /\ IsSingleNonBase(vcf_line.alt)
              THEN ParseVcfLines(lines, k + 1, sample_names, Append(gap_position, 1),
                                 Append(gap_alt_base, vcf_line.ref[1]))
              ELSE IF IsSingleNonBase(vcf_line.ref) /\ IsSingleBase(vcf_line.alt)
              THEN ParseVcfLines(lines, k + 1, sample_names, Append(gap_position, 1),
                                 Append(gap_alt_base, vcf_line.alt[1]))
              ELSE ParseVcfLines(lines, k + 1, sample_names, Append(gap_position, 0),
                                 Append(gap_alt_base, "-"))
         ELSE ParseVcfLines(lines, k + 1, sample_names, gap_position, gap_alt_base)

\* a faulty inner loop: an if in place of the while, one pending gap column at most
EmitOneGap(gap_index, inserted_gaps, gap_position, gap_alt_base) ==
    IF gap_index < Len(gap_position) /\ gap_position[gap_index + 1] = 1
    THEN << gap_index + 1, Append(inserted_gaps, gap_alt_base[gap_index + 1]) >>
    ELSE << gap_index, inserted_gaps >>

\* lines 564-566: the pending gap columns are emitted: << gap_index, inserted_gaps >>
RECURSIVE EmitGaps(_, _, _, _)
EmitGaps(gap_index, inserted_gaps, gap_position, gap_alt_base) ==
    IF gap_index < Len(gap_position) /\ gap_position[gap_index + 1] = 1
    THEN EmitGaps(gap_index + 1, Append(inserted_gaps, gap_alt_base[gap_index + 1]),
                  gap_position, gap_alt_base)
    ELSE << gap_index, inserted_gaps >>

\* a faulty merge, by content: a gap symbol of the record is taken for a gap
\* column and is not emitted
RECURSIVE InterleaveBasesByContent(_, _, _, _, _, _)
InterleaveBasesByContent(seq, b, gap_index, inserted_gaps, gap_position, gap_alt_base) ==
    IF b > Len(seq) THEN << gap_index, inserted_gaps >>
    ELSE LET g == EmitGaps(gap_index, inserted_gaps, gap_position, gap_alt_base) IN
         IF g[1] < Len(gap_position) /\ seq[b] # "-"
         THEN InterleaveBasesByContent(seq, b + 1, g[1] + 1, Append(g[2], seq[b]),
                                       gap_position, gap_alt_base)
         ELSE InterleaveBasesByContent(seq, b + 1, g[1], g[2], gap_position, gap_alt_base)

\* lines 563-569: the loop over the bases of a record: << gap_index, inserted_gaps >>
RECURSIVE InterleaveBases(_, _, _, _, _, _)
InterleaveBases(seq, b, gap_index, inserted_gaps, gap_position, gap_alt_base) ==
    IF b > Len(seq) THEN << gap_index, inserted_gaps >>
    ELSE LET g == EmitGaps(gap_index, inserted_gaps, gap_position, gap_alt_base) IN
         IF g[1] < Len(gap_position)
         THEN InterleaveBases(seq, b + 1, g[1] + 1, Append(g[2], seq[b]),
                              gap_position, gap_alt_base)
         ELSE InterleaveBases(seq, b + 1, g[1], g[2], gap_position, gap_alt_base)

\* a faulty last loop: only the columns marked as gaps are emitted
RECURSIVE EmitMarkedRest(_, _, _, _)
EmitMarkedRest(gap_index, inserted_gaps, gap_position, gap_alt_base) ==
    IF gap_index < Len(gap_position)
    THEN EmitMarkedRest(gap_index + 1,
                        IF gap_position[gap_index + 1] = 1
                        THEN Append(inserted_gaps, gap_alt_base[gap_index + 1])
                        ELSE inserted_gaps,
                        gap_position, gap_alt_base)
    ELSE inserted_gaps

\* lines 571-573: the columns left are emitted from the listing
RECURSIVE EmitRest(_, _, _, _)
EmitRest(gap_index, inserted_gaps, gap_position, gap_alt_base) ==
    IF gap_index < Len(gap_position)
    THEN EmitRest(gap_index + 1, Append(inserted_gaps, gap_alt_base[gap_index + 1]),
                  gap_position, gap_alt_base)
    ELSE inserted_gaps

\* lines 558-575: the new sequence of one record
ReinsertedSeq(seq, gap_position, gap_alt_base) ==
    LET done == InterleaveBases(seq, 1, 0, << >>, gap_position, gap_alt_base)
    IN  EmitRest(done[1], done[2], gap_position, gap_alt_base)

\* a faulty choice of the records: the records of the samples are rewritten too
IsRewrittenAlways(record_id, sample_names) == TRUE

\* line 559: a record is rewritten unless its id is one of the sample names
IsRewritten(record_id, sample_names) ==
    ~ \E k \in 1..Len(sample_names) : sample_names[k] = record_id

\* lines 557-576: the loop over the records of the alignment read
RECURSIVE GappedAlignments(_, _, _, _)
GappedAlignments(records, k, parsed, gapped_alignments) ==
    IF k > Len(records) THEN gapped_alignments
    ELSE LET record == records[k] IN
         IF ~ IsRewritten(record.id, parsed.sample_names)
         THEN GappedAlignments(records, k + 1, parsed, gapped_alignments)
         ELSE GappedAlignments(
                  records, k + 1, parsed,
                  Append(gapped_alignments,
                         [id |-> record.id,
                          seq |-> ReinsertedSeq(record.seq, parsed.gap_position,
                                                parsed.gap_alt_base)]))

\* a faulty write: the output file is opened for writing, not for appending
OverwrittenFasta(before, gapped_alignments) == gapped_alignments

\* lines 578-579: the records are appended to the output file
AppendedFasta(before, gapped_alignments) == before \o gapped_alignments

\* reinsert_gaps_into_fasta_file, on the file system fs
reinsert_gaps_into_fasta_file(fs, input_fasta_filename, input_vcf_file, output_fasta_filename) ==
    LET parsed == ParseVcfLines(fs[input_vcf_file], 1, << >>, << >>, << >>)
        gapped_alignments == GappedAlignments(fs[input_fasta_filename], 1, parsed, << >>)
        before == IF output_fasta_filename \in DOMAIN fs THEN fs[output_fasta_filename] ELSE << >>
    IN  Put(fs, output_fasta_filename, AppendedFasta(before, gapped_alignments))

\* the data lines: REF a base and ALT a gap, REF a gap and ALT a base, a
\* substitution, a substitution with a second ALT that is a gap
DataLines ==
    { VcfData(<< "A" >>, << "-" >>), VcfData(<< "-" >>, << "G" >>),
      VcfData(<< "A" >>, << "C" >>), VcfData(<< "A" >>, << "C", ",", "-" >>) }

\* the variant listings: a VCF file of samples A and B with up to MaxSites data lines
VcfFiles ==
    { << VcfOther, VcfHeader(<< "A", "B" >>) >> \o d :
         d \in UNION { [1..n -> DataLines] : n \in 0..MaxSites } }

\* the joint alignments: the record of sample A and the records of the
\* internal nodes N1 and N2, all of one length (AlignIO.parse reads an
\* alignment)
JointAlignments ==
    UNION { { << [id |-> "A", seq |-> [k \in 1..n |-> "C"]],
                 [id |-> "N1", seq |-> s1],
                 [id |-> "N2", seq |-> s2] >> : s1, s2 \in [1..n -> { "C", "-" }] } :
            n \in 0..MaxSites }

\* line 240: the output file is a copy of the gapped alignment of the samples
StartAlignment ==
    << [id |-> "A", seq |-> << "C", "-", "C" >>], [id |-> "B", seq |-> << "C", "-", "T" >>] >>

InitGaps ==
    /\ pc = "reinsert_gaps_into_fasta_file"
    /\ input_args = ArgsWithMethod("recombination")
    /\ i = 1
    /\ tree_file_names = << >>
    /\ current_tree_name = CurrentTreeName(1)
    /\ \E vcf \in VcfFiles, joint \in JointAlignments :
          files = Put(Put(Put([n \in {} |-> Opaque], gaps_vcf_filename, vcf),
                          joint_sequences_filename, joint),
                      gaps_alignment_filename, StartAlignment)
    /\ LocalsIdle

\* line 241: reinsert_gaps_into_fasta_file is called; the history entry holds
\* the disk before the call
CallReinsertGaps ==
    /\ pc = "reinsert_gaps_into_fasta_file"
    /\ files' = reinsert_gaps_into_fasta_file(files, joint_sequences_filename,
                                              gaps_vcf_filename, gaps_alignment_filename)
    /\ log' = Append(log, Event("reinsert_gaps_into_fasta_file", i, "AlignIO",
                                [names |-> tree_file_names, disk |-> files], TRUE))
    /\ pc' = "Returned"
    /\ UNCHANGED << input_args, alignment_file, starting_tree_file, stale_intermediate, i,
                    tree_builder, sequence_reconstructor, alignment_suffix, current_tree_name,
                    tree_file_names, temp_working_dir, printed,
                    output_filenames_to_final_filenames, exit_reason >>

SpecGaps == InitGaps /\ [][CallReinsertGaps]_vars

---------------------------------------------------------------------------
(* Properties of the gap reinsertion *)

\* reinsert_gaps_into_fasta_file has returned; the disk before the call
GapsReturned == Returned("reinsert_gaps_into_fasta_file")
DiskBefore == log[Len(log)].arg.disk

\* the data lines of the variant listing, in order, and their number L
ListingLines == SelectSeq(DiskBefore[gaps_vcf_filename], LAMBDA l : l.kind = "data")
ListingLength == Len(ListingLines)

\* the sample names of the variant listing
SampleNames ==
    UNION { { l.samples[m] : m \in 1..Len(l.samples) } :
            l \in { DiskBefore[gaps_vcf_filename][k] : k \in 1..Len(DiskBefore[gaps_vcf_filename]) } }

\* position p of the listing is marked constant: one of REF and ALT is a
\* single base and the other a single symbol that is no base; the fallback
\* symbol recorded for p is that base, and "-" for a position not marked
BaseSymbols == { "A", "C", "G", "T", "a", "c", "g", "t" }
Marked(p) ==
    LET l == ListingLines[p] IN
    /\ Len(l.ref) = 1 /\ Len(l.alt) = 1
    /\ (l.ref[1] \in BaseSymbols) # (l.alt[1] \in BaseSymbols)
FallbackSymbol(p) ==
    LET l == ListingLines[p] IN
    IF ~ Marked(p) THEN "-" ELSE IF l.ref[1] \in BaseSymbols THEN l.ref[1] ELSE l.alt[1]

\* the positions not marked, and the rank of a position among them
Unmarked == { p \in 1..ListingLength : ~ Marked(p) }
Rank(p) == Cardinality({ q \in Unmarked : q <= p })

\* the non-sample records read, and the records the call added to the output
InternalRecords == SelectSeq(DiskBefore[joint_sequences_filename], LAMBDA r : r.id \notin SampleNames)
AddedRecords ==
    SubSeq(files[gaps_alignment_filename], Len(DiskBefore[gaps_alignment_filename]) + 1,
           Len(files[gaps_alignment_filename]))

\* C15: for every variant listing with L data lines and every non-sample
\* record, whatever its length (shorter than, equal to or longer than the
\* number of positions not marked constant, the empty record included), the
\* sequence written by reinsert_gaps_into_fasta_file has length exactly L.
C15_OutputLength ==
    GapsReturned =>
        /\ Len(AddedRecords) = Len(InternalRecords)
        /\ \A k \in 1..Len(AddedRecords) :
              /\ AddedRecords[k].id = InternalRecords[k].id
              /\ Len(AddedRecords[k].seq) = ListingLength

\* records shorter than the positions not marked (empty, with a listing of
\* three lines, one marked) have been rewritten
C15_Witness ==
    /\ GapsReturned
    /\ ListingLength = 3
    /\ Cardinality(Unmarked) = 2
    /\ Len(InternalRecords) = 2
    /\ Len(InternalRecords[1].seq) = 0
    /\ Len(AddedRecords[1].seq) = 3

\* the sequence s with the columns marked constant deleted is the sequence d
DeletingMarkedGives(s, d) ==
    /\ Len(d) = Cardinality(Unmarked)
    /\ \A p \in Unmarked : p <= Len(s) /\ s[p] = d[Rank(p)]

\* C16 (as stated): for every variant listing and every non-sample record,
\* deleting the columns marked constant from the reinserted sequence gives
\* the record's sequence back: same residues, same order, none dropped, none
\* invented.
C16_RoundTrip ==
    GapsReturned =>
        \A k \in 1..Len(AddedRecords) :
            DeletingMarkedGives(AddedRecords[k].seq, InternalRecords[k].seq)

\* the sequence r cut or padded with "-" to the length n
CutOrPadded(r, n) == [m \in 1..n |-> IF m <= Len(r) THEN r[m] ELSE "-"]

\* C16 (amended): for every variant listing of length L with k positions
\* marked constant and every non-sample record of length L - k, deleting the
\* k marked columns from the reinserted sequence gives the record's sequence
\* back exactly; for a shorter record the deletion gives the record followed
\* by one "-" for each residue it lacks, and for a longer record it gives the
\* first L - k residues of the record, the others are dropped.
C16_RoundTripAtLength ==
    GapsReturned =>
        \A k \in 1..Len(AddedRecords) :
            /\ DeletingMarkedGives(AddedRecords[k].seq,
                                   CutOrPadded(InternalRecords[k].seq, Cardinality(Unmarked)))
            /\ Len(InternalRecords[k].seq) = Cardinality(Unmarked) =>
                  DeletingMarkedGives(AddedRecords[k].seq, InternalRecords[k].seq)

\* records of two residues have been merged with a listing of three lines of
\* which one, between the two others, is marked constant
C16_Witness ==
    /\ GapsReturned
    /\ ListingLength = 3
    /\ Unmarked = { 1, 3 }
    /\ InternalRecords[1].seq = << "C", "-" >>
    /\ AddedRecords[1].seq = << "C", FallbackSymbol(2), "-" >>

\* the ids of the records of a file
IdsOf(records) == { records[k].id : k \in 1..Len(records) }

\* C17: reinsert_gaps_into_fasta_file passes the sequences of the samples
\* through unchanged: no record with a sample's id is rewritten or added, the
\* records that were in the output alignment before the call are still
\* there, in place and unmodified, the records added after them are the
\* non-sample records of the input, each exactly once and in their order, and
\* the files read are not changed.
C17_SamplesPassThrough ==
    GapsReturned =>
        /\ SubSeq(files[gaps_alignment_filename], 1, Len(DiskBefore[gaps_alignment_filename]))
               = DiskBefore[gaps_alignment_filename]
        /\ \A k \in 1..Len(AddedRecords) : AddedRecords[k].id \notin SampleNames
        /\ Len(AddedRecords) = Len(InternalRecords)
        /\ \A k \in 1..Len(AddedRecords) : AddedRecords[k].id = InternalRecords[k].id
        /\ \A id \in IdsOf(DiskBefore[joint_sequences_filename]) \ SampleNames :
              Cardinality({ k \in 1..Len(AddedRecords) : AddedRecords[k].id = id }) = 1
        /\ files[joint_sequences_filename] = DiskBefore[joint_sequences_filename]
        /\ files[gaps_vcf_filename] = DiskBefore[gaps_vcf_filename]
        /\ DOMAIN files = DOMAIN DiskBefore

\* the records of the samples A and B are in the output as before, the input
\* held a record of sample A, and the records of N1 and N2 follow them
C17_Witness ==
    /\ GapsReturned
    /\ "A" \in IdsOf(DiskBefore[joint_sequences_filename]) \cap SampleNames
    /\ ListingLength = 2
    /\ Len(files[gaps_alignment_filename]) = 4
    /\ files[gaps_alignment_filename][1] = StartAlignment[1]
    /\ files[gaps_alignment_filename][3].id = "N1"
    /\ files[gaps_alignment_filename][4].id = "N2"

\* position p of the output of a record of length n is filled from the
\* listing: p is marked constant, or the residues of the record are used up
FromListing(p, n) == Marked(p) \/ Rank(p) > n

\* C18: the gap reinsertion is a positional merge: the positions of the
\* output filled from the listing are the positions marked constant and the
\* positions left when the record is used up, whatever the residues of the
\* record; any two non-sample records of equal length carry the listing's
\* fallback symbol at the same positions, all the marked ones among them, and
\* the residues of each record, in order, at all the other positions.
C18_PositionalMerge ==
    GapsReturned =>
        \A k, m \in 1..Len(AddedRecords) :
            Len(InternalRecords[k].seq) = Len(InternalRecords[m].seq) =>
                \A p \in 1..ListingLength :
                    LET n == Len(InternalRecords[k].seq) IN
                    /\ p <= Len(AddedRecords[k].seq) /\ p <= Len(AddedRecords[m].seq)
                    /\ FromListing(p, n) =>
                          /\ AddedRecords[k].seq[p] = FallbackSymbol(p)
                          /\ AddedRecords[m].seq[p] = FallbackSymbol(p)
                    /\ ~ FromListing(p, n) =>
                          /\ AddedRecords[k].seq[p] = InternalRecords[k].seq[Rank(p)]
                          /\ AddedRecords[m].seq[p] = InternalRecords[m].seq[Rank(p)]

\* two records of equal length and different residues, one of them holding a
\* gap symbol, have been merged with a listing with a marked position
C18_Witness ==
    /\ GapsReturned
    /\ ListingLength = 3
    /\ Unmarked = { 2, 3 }
    /\ InternalRecords[1].seq = << "-", "C" >>
    /\ InternalRecords[2].seq = << "C", "-" >>
    /\ AddedRecords[1].seq = << FallbackSymbol(1), "-", "C" >>
    /\ AddedRecords[2].seq = << FallbackSymbol(1), "C", "-" >>

---------------------------------------------------------------------------
(* The operations on the structure of a tree: get_monophyletic_outgroup    *)
(* and split_all_non_bi_nodes                                              *)

\* a node of a tree with its subtree: a leaf has a taxon label and no child
\* nodes; created tells the nodes made by new_child from the nodes read
Leaf(label, length) ==
    [label |-> label, length |-> length, children |-> << >>, created |-> FALSE]
Inner(length, children) ==
    [label |-> "", length |-> length, children |-> children, created |-> FALSE]

\* node.leaf_nodes(): the labels of the leaves under a node, in preorder
RECURSIVE LeafLabels(_)
LeafLabels(node) ==
    IF node.children = << >> THEN << node.label >>
    ELSE LET Collect[k \in 0..Len(node.children)] ==
                 IF k = 0 THEN << >> ELSE Collect[k - 1] \o LeafLabels(node.children[k])
         IN  Collect[Len(node.children)]

\* the elements of a list
Elements(list) == { list[k] : k \in 1..Len(list) }

\* tree.mrca(taxon_labels = labels): the lowest node that has all the labels under it
RECURSIVE Mrca(_, _)
Mrca(node, labels) ==
    IF \E k \in 1..Len(node.children) : labels \subseteq Elements(LeafLabels(node.children[k]))
    THEN Mrca(node.children[CHOOSE k \in 1..Len(node.children) :
                                labels \subseteq Elements(LeafLabels(node.children[k]))],
              labels)
    ELSE node

\* lines 489-491: the diagnostic printed
MsgNoClade(first, other) ==
    << "Your outgroups do not form a clade. Using the first taxon ", first,
       " as the outgroup. Taxon ", other, " is in the clade but not in your list of outgroups." >>

\* a faulty get_monophyletic_outgroup: the outgroups are taken as given
outgroups_as_given(tree, outgroups) == [result |-> outgroups, printed |-> << >>]

\* get_monophyletic_outgroup, on the tree read from tree_name and derooted:
\* the list returned and the lines printed
get_monophyletic_outgroup(tree, outgroups) ==
    IF Len(outgroups) = 1 THEN [result |-> outgroups, printed |-> << >>]
    ELSE LET leaf_nodes == LeafLabels(Mrca(tree, Elements(outgroups)))
             others == SelectSeq(leaf_nodes, LAMBDA label : label \notin Elements(outgroups))
         IN  IF others # << >>
             THEN [result |-> << outgroups[1] >>,
                   printed |-> << MsgNoClade(outgroups[1], others[1]) >>]
             ELSE [result |-> outgroups, printed |-> << >>]

\* a faulty split_child_nodes: the placeholder is given the edge length of the child kept
split_child_nodes_with_length(node) ==
    LET all_child_nodes == node.children
        first_child == all_child_nodes[Len(all_child_nodes)]
        new_child_node == [label |-> "", length |-> first_child.length,
                           children |-> SubSeq(all_child_nodes, 1, Len(all_child_nodes) - 1),
                           created |-> TRUE]
    IN  [node EXCEPT !.children = << first_child, new_child_node >>]

\* split_child_nodes: the child popped from the end of the list is kept, the
\* others are moved under a new child node of edge length 0
split_child_nodes(node) ==
    LET all_child_nodes == node.children
        first_child == all_child_nodes[Len(all_child_nodes)]
        new_child_node == [label |-> "", length |-> 0,
                           children |-> SubSeq(all_child_nodes, 1, Len(all_child_nodes) - 1),
                           created |-> TRUE]
    IN  [node EXCEPT !.children = << first_child, new_child_node >>]

\* split_all_non_bi_nodes: the node with its subtree after the call
RECURSIVE split_all_non_bi_nodes(_)
split_all_non_bi_nodes(node) ==
    IF node.children = << >> THEN node
    ELSE LET split == IF Len(node.children) > 2 THEN split_child_nodes(node) ELSE node
         IN  [split EXCEPT !.children =
                 [k \in 1..Len(split.children) |-> split_all_non_bi_nodes(split.children[k])]]

\* the largest number of child nodes of a node of a tree read, and of outgroups given
MaxChildren == 4

\* the subtrees of the trees read by root_tree: a leaf (shape 0), an inner
\* node over a node of MaxChildren leaves and a leaf (shape 1), an inner
\* node of 2..MaxChildren leaves; the label of a leaf is its path from the root, in digits
ShapedSubtree(shape, path, k) ==
    IF shape = 0 THEN Leaf(path, k)
    ELSE IF shape = 1
    THEN Inner(k - 1, << Inner(1, [m \in 1..MaxChildren |-> Leaf(path \o "1" \o Str(m), m)]),
                         Leaf(path \o "2", 2) >>)
    ELSE Inner(k - 1, [m \in 1..shape |-> Leaf(path \o Str(m), m)])

\* the trees read by root_tree: a root of up to MaxChildren subtrees
TreesToSplit ==
    UNION { { Inner(0, [k \in 1..n |-> ShapedSubtree(shapes[k], Str(k), k)]) :
                 shapes \in [1..n -> 0..MaxChildren] } : n \in 1..MaxChildren }

\* the derooted trees read by get_monophyletic_outgroup: (A,B,(C,D)),
\* ((A,B),C,D) and (((A,B),C),D,E)
OutgroupTrees ==
    { Inner(0, << Leaf("A", 1), Leaf("B", 1), Inner(1, << Leaf("C", 1), Leaf("D", 1) >>) >>),
      Inner(0, << Inner(1, << Leaf("A", 1), Leaf("B", 1) >>), Leaf("C", 1), Leaf("D", 1) >>),
      Inner(0, << Inner(1, << Inner(1, << Leaf("A", 1), Leaf("B", 1) >>), Leaf("C", 1) >>),
                  Leaf("D", 1), Leaf("E", 1) >>) }

\* the lists of outgroups given for a tree: one label (of the tree or not), or
\* several different labels of the tree
OutgroupLists(tree) ==
    { << "Z" >> } \cup
    UNION { { list \in [1..n -> Elements(LeafLabels(tree))] :
                 \A a, b \in 1..n : a # b => list[a] # list[b] } : n \in 1..MaxChildren }

InitTrees ==
    /\ pc \in { "get_monophyletic_outgroup", "root_tree" }
    /\ i = 1
    /\ tree_file_names = << >>
    /\ current_tree_name = CurrentTreeName(1)
    /\ \E tree \in IF pc = "root_tree" THEN TreesToSplit ELSE OutgroupTrees :
          /\ files = Put([n \in {} |-> Opaque], current_tree_name, tree)
          /\ \E outgroups \in IF pc = "root_tree" THEN { None } ELSE OutgroupLists(tree) :
                input_args = [ArgsWithMethod("recombination") EXCEPT !.outgroup = outgroups]
    /\ LocalsIdle

\* line 398: get_monophyletic_outgroup is called on the tree file and the outgroups
CallGetMonophyleticOutgroup ==
    /\ pc = "get_monophyletic_outgroup"
    /\ LET returned == get_monophyletic_outgroup(files[current_tree_name], input_args.outgroup)
       IN  /\ log' = Append(log, Event("get_monophyletic_outgroup", i, "dendropy",
                                       [names |-> tree_file_names, disk |-> files],
                                       returned.result))
           /\ printed' = printed \o returned.printed
    /\ pc' = "Returned"
    /\ UNCHANGED << input_args, alignment_file, starting_tree_file, stale_intermediate, i,
                    tree_builder, sequence_reconstructor, alignment_suffix, current_tree_name,
                    tree_file_names, temp_working_dir, files,
                    output_filenames_to_final_filenames, exit_reason >>

\* line 203, lines 381-387: root_tree reads the tree, splits the nodes of more
\* than two child nodes from the root on, and writes the tree
CallRootTree ==
    /\ pc = "root_tree"
    /\ files' = Put(files, InTemp(current_tree_name \o << ".rooted" >>),
                    split_all_non_bi_nodes(files[current_tree_name]))
    /\ log' = Append(log, Event("root_tree", i, "dendropy",
                                [names |-> tree_file_names, disk |-> files], TRUE))
    /\ pc' = "Returned"
    /\ UNCHANGED << input_args, alignment_file, starting_tree_file, stale_intermediate, i,
                    tree_builder, sequence_reconstructor, alignment_suffix, current_tree_name,
                    tree_file_names, temp_working_dir, printed,
                    output_filenames_to_final_filenames, exit_reason >>

SpecTrees == InitTrees /\ [][CallGetMonophyleticOutgroup \/ CallRootTree]_vars

---------------------------------------------------------------------------
(* Properties of the operations on trees *)

\* the clades of a tree: the set of leaf labels under each of its nodes
RECURSIVE CladesOf(_)
CladesOf(node) ==
    { Elements(LeafLabels(node)) } \cup
    UNION { CladesOf(node.children[k]) : k \in 1..Len(node.children) }

\* the leaf set under the most recent common ancestor of the labels: the
\* smallest clade of the tree that holds them all
LeafSetOfMrca(tree, labels) ==
    CHOOSE c \in CladesOf(tree) :
        /\ labels \subseteq c
        /\ \A d \in CladesOf(tree) : labels \subseteq d => c \subseteq d

\* C19: get_monophyletic_outgroup returns the one label given as it is,
\* whatever the tree; for several labels it returns them all, and prints
\* nothing, when the leaf set under their most recent common ancestor is
\* exactly the set of the labels given, and otherwise it returns the first
\* label given alone and prints a diagnostic that names it and a taxon of the
\* clade that was not given; what it returns is never empty and holds labels
\* given only.
C19_MonophyleticOutgroup ==
    Returned("get_monophyletic_outgroup") =>
        LET given == input_args.outgroup
            result == log[Len(log)].result
            tree == files[current_tree_name]
        IN  /\ Len(given) = 1 => result = given /\ printed = << >>
            /\ Len(given) > 1 /\ LeafSetOfMrca(tree, Elements(given)) = Elements(given) =>
                  result = given /\ printed = << >>
            /\ Len(given) > 1 /\ LeafSetOfMrca(tree, Elements(given)) # Elements(given) =>
                  /\ result = << given[1] >>
                  /\ Len(printed) = 1
                  /\ printed[1][2] = given[1]
                  /\ printed[1][4] \in LeafSetOfMrca(tree, Elements(given)) \ Elements(given)
            /\ result # << >>
            /\ Elements(result) \subseteq Elements(given)

\* the outgroups C and A of the tree (((A,B),C),D,E): B is in their clade, the
\* first label alone is returned and the diagnostic is printed
C19_Witness ==
    /\ Returned("get_monophyletic_outgroup")
    /\ input_args.outgroup = << "C", "A" >>
    /\ Elements(LeafLabels(files[current_tree_name])) = { "A", "B", "C", "D", "E" }
    /\ log[Len(log)].result = << "C" >>
    /\ printed = << MsgNoClade("C", "B") >>

\* the nodes of a tree, each with its subtree
RECURSIVE NodesOf(_)
NodesOf(node) ==
    { node } \cup UNION { NodesOf(node.children[k]) : k \in 1..Len(node.children) }

\* the leaves under a node with their distances to the root, for a node at
\* the distance d from the root
RECURSIVE LeafDistances(_, _)
LeafDistances(node, d) ==
    IF node.children = << >> THEN { << node.label, d >> }
    ELSE UNION { LeafDistances(node.children[k], d + node.children[k].length) :
                 k \in 1..Len(node.children) }

\* the tree read by root_tree and the tree after split_all_non_bi_nodes
TreeRead == DiskBefore[current_tree_name]
TreeSplit == files[InTemp(current_tree_name \o << ".rooted" >>)]

\* C20: split_all_non_bi_nodes applied at the root of a finite tree ends and
\* leaves every node with at most 2 child nodes; every node it makes is an
\* inner node, with no label, of edge length 0; the nodes read are all kept,
\* the leaves are the same and every leaf is as far from the root as before.
C20_SplitAllNonBiNodes ==
    Returned("root_tree") =>
        /\ \A node \in NodesOf(TreeSplit) : Len(node.children) <= 2
        /\ \A node \in NodesOf(TreeSplit) :
              node.created => node.children # << >> /\ node.length = 0 /\ node.label = ""
        /\ \A node \in NodesOf(TreeRead) : ~ node.created
        /\ Cardinality({ node \in NodesOf(TreeSplit) : ~ node.created })
               = Cardinality(NodesOf(TreeRead))
        /\ Len(LeafLabels(TreeSplit)) = Len(LeafLabels(TreeRead))
        /\ Elements(LeafLabels(TreeSplit)) = Elements(LeafLabels(TreeRead))
        /\ LeafDistances(TreeSplit, 0) = LeafDistances(TreeRead, 0)

\* a root of four child nodes, one of them of four leaves, has been split: a
\* node made by the split is the child of another one
C20_Witness ==
    /\ Returned("root_tree")
    /\ Len(TreeRead.children) = 4
    /\ \E k \in 1..4 : Len(TreeRead.children[k].children) = 4
    /\ Len(TreeSplit.children) = 2
    /\ \E node \in NodesOf(TreeSplit) :
          /\ node.created
          /\ \E k \in 1..Len(node.children) : node.children[k].created

---------------------------------------------------------------------------
(* Rerooting at the midpoint: reroot_tree_at_midpoint.  The steps of the   *)
(* tree library (reroot_at_midpoint, deroot) are modelled by what they do  *)
(* to the tree: the new seed node lies at half the largest distance of two *)
(* leaves, on the path between them; a seed node of two child nodes is     *)
(* made a node of three by collapsing the edge of one of them.             *)

\* the node of a tree at a path: the path lists the child taken at each node
RECURSIVE NodeAt(_, _)
NodeAt(node, path) ==
    IF path = << >> THEN node ELSE NodeAt(node.children[Head(path)], Tail(path))

\* the tree with the node at a path replaced
RECURSIVE ReplaceAt(_, _, _)
ReplaceAt(node, path, new) ==
    IF path = << >> THEN new
    ELSE [node EXCEPT !.children =
             [k \in 1..Len(node.children) |->
                 IF k = Head(path) THEN ReplaceAt(node.children[k], Tail(path), new)
                 ELSE node.children[k]]]

\* the paths of the leaves under a node
RECURSIVE LeafPaths(_)
LeafPaths(node) ==
    IF node.children = << >> THEN { << >> }
    ELSE UNION { { << k >> \o p : p \in LeafPaths(node.children[k]) } :
                 k \in 1..Len(node.children) }

\* the longest common prefix of two paths: the path of their most recent common ancestor
RECURSIVE CommonPrefix(_, _)
CommonPrefix(p, q) ==
    IF p = << >> \/ q = << >> \/ Head(p) # Head(q) THEN << >>
    ELSE << Head(p) >> \o CommonPrefix(Tail(p), Tail(q))

\* the nodes passed from the leaf at n1 up to the most recent common ancestor
\* and down to the leaf at n2, as paths
WalkBetween(n1, n2) ==
    LET mrca == Len(CommonPrefix(n1, n2))
        up == [k \in 1..(Len(n1) - mrca + 1) |-> SubSeq(n1, 1, Len(n1) - k + 1)]
        down == [k \in 1..(Len(n2) - mrca) |-> SubSeq(n2, 1, mrca + k)]
    IN  up \o down

\* the length of the edge between two neighbours of a walk: the edge of the deeper node
StepLength(tree, a, b) ==
    IF Len(a) > Len(b) THEN NodeAt(tree, a).length ELSE NodeAt(tree, b).length

\* the distance from the first node of a walk to its k-th node
RECURSIVE DistanceAlong(_, _, _)
DistanceAlong(tree, walk, k) ==
    IF k <= 1 THEN 0
    ELSE DistanceAlong(tree, walk, k - 1) + StepLength(tree, walk[k - 1], walk[k])

\* the patristic distance of two leaves
patristic_distance(tree, n1, n2) ==
    DistanceAlong(tree, WalkBetween(n1, n2), Len(WalkBetween(n1, n2)))

\* max_pairwise_distance_taxa: the pairs of leaves at the largest distance
max_pairwise_distance_taxa(tree) ==
    LET pairs == { pair \in LeafPaths(tree) \X LeafPaths(tree) : pair[1] # pair[2] }
        distance == [pair \in pairs |-> patristic_distance(tree, pair[1], pair[2])]
    IN  { pair \in pairs : \A other \in pairs : distance[other] <= distance[pair] }

\* reseed_at: the node at the path becomes the seed node; each node passed
\* on the way is hung under its former child by the edge of that child, and
\* a former seed node left with one child node is suppressed
RECURSIVE reseed_at(_, _)
reseed_at(tree, path) ==
    IF path = << >> THEN tree
    ELSE LET child == tree.children[Head(path)]
             others == SelectSeq([k \in 1..Len(tree.children) |-> << k, tree.children[k] >>],
                                 LAMBDA c : c[1] # Head(path))
             rest == IF Len(others) = 1
                     THEN [others[1][2] EXCEPT !.length = @ + child.length]
                     ELSE [tree EXCEPT !.length = child.length,
                                       !.children = [k \in 1..Len(others) |-> others[k][2]]]
         IN  reseed_at([child EXCEPT !.length = 0, !.children = Append(@, rest)], Tail(path))

\* reroot_at_midpoint for the leaves n1 and n2 at the largest distance: the
\* walk from n1 is followed for half the distance; a node met there becomes
\* the seed node, otherwise a new seed node divides the edge
reroot_at_midpoint(tree, n1, n2) ==
    LET walk == WalkBetween(n1, n2)
        plen2 == patristic_distance(tree, n1, n2)
        k == CHOOSE m \in 1..Len(walk) :
                 /\ 2 * DistanceAlong(tree, walk, m) >= plen2
                 /\ \A l \in 1..(m - 1) : 2 * DistanceAlong(tree, walk, l) < plen2
    IN  IF 2 * DistanceAlong(tree, walk, k) = plen2
        THEN reseed_at(tree, walk[k])
        ELSE LET target == IF Len(walk[k - 1]) > Len(walk[k]) THEN walk[k - 1] ELSE walk[k]
                 old_head_node == NodeAt(tree, target)
                 head_node_edge_len ==
                     IF target = walk[k] THEN DistanceAlong(tree, walk, k) - plen2 \div 2
                     ELSE plen2 \div 2 - DistanceAlong(tree, walk, k - 1)
                 new_seed_node ==
                     [label |-> "", length |-> old_head_node.length - head_node_edge_len,
                      children |-> << [old_head_node EXCEPT !.length = head_node_edge_len] >>,
                      created |-> TRUE]
             IN  reseed_at(ReplaceAt(tree, target, new_seed_node), target)

\* a faulty deroot: the edges of both child nodes of the seed node are collapsed
deroot_both(tree) ==
    IF Len(tree.children) # 2 THEN tree
    ELSE [tree EXCEPT !.children =
             (IF tree.children[1].children = << >> THEN << tree.children[1] >>
              ELSE tree.children[1].children)
             \o (IF tree.children[2].children = << >> THEN << tree.children[2] >>
                 ELSE tree.children[2].children)]

\* deroot: a seed node of two child nodes takes over the child nodes of one
\* of them that has two or more; the length of the collapsed edge goes to the other
deroot(tree) ==
    IF Len(tree.children) # 2 THEN tree
    ELSE LET first == tree.children[1]
             second == tree.children[2]
         IN  IF Len(second.children) >= 2
             THEN [tree EXCEPT !.children =
                      << [first EXCEPT !.length = first.length + second.length] >> \o second.children]
             ELSE IF Len(first.children) >= 2
             THEN [tree EXCEPT !.children =
                      first.children \o << [second EXCEPT !.length = second.length + first.length] >>]
             ELSE tree

\* reroot_tree_at_midpoint, on the tree read from tree_name, for the leaves n1
\* and n2 at the largest distance: the tree written
reroot_tree_at_midpoint(tree, n1, n2) ==
    deroot(reroot_at_midpoint(split_all_non_bi_nodes(tree), n1, n2))

\* the largest number of child nodes of a node under the root of a tree rerooted
MaxDegree == 3

\* a subtree of a tree rerooted: a leaf (shape 0) or a node of shape leaves, of
\* the edge lengths 2, 4, ...; the label of a leaf is its path from the root, in digits
MidpointSubtree(shape, path, length) ==
    IF shape = 0 THEN Leaf(path, length)
    ELSE Inner(length, [m \in 1..shape |-> Leaf(path \o Str(m), 2 * m)])

\* the trees read by reroot_tree_at_midpoint: a root of 2 or 3 subtrees, 3
\* leaves or more, every edge of a positive even length
MidpointTrees ==
    UNION { { Inner(0, [k \in 1..n |-> MidpointSubtree(shapes[k], Str(k), lengths[k])]) :
                 shapes \in { s \in [1..n -> { 0 } \cup 2..MaxDegree] :
                                 n > 2 \/ \E k \in 1..n : s[k] # 0 },
                 lengths \in [1..n -> { 2, 4 }] } : n \in 2..3 }

InitMidpoint ==
    /\ pc = "reroot_tree_at_midpoint"
    /\ i = 1
    /\ tree_file_names = << >>
    /\ current_tree_name = CurrentTreeName(1)
    /\ input_args = ArgsWithMethod("recombination")
    /\ \E tree \in MidpointTrees : files = Put([n \in {} |-> Opaque], current_tree_name, tree)
    /\ LocalsIdle

\* lines 198 and 394, lines 413-422: reroot_tree_at_midpoint reads the tree
\* file and writes the rerooted tree to it (it is called twice in a row)
CallRerootTreeAtMidpoint ==
    /\ pc = "reroot_tree_at_midpoint"
    /\ \E pair \in max_pairwise_distance_taxa(split_all_non_bi_nodes(files[current_tree_name])) :
          files' = Put(files, current_tree_name,
                       reroot_tree_at_midpoint(files[current_tree_name], pair[1], pair[2]))
    /\ log' = Append(log, Event("reroot_tree_at_midpoint", i, "dendropy",
                                [names |-> tree_file_names, disk |-> files], TRUE))
    /\ pc' = IF Len(log) = 1 THEN "Returned" ELSE pc
    /\ UNCHANGED << input_args, alignment_file, starting_tree_file, stale_intermediate, i,
                    tree_builder, sequence_reconstructor, alignment_suffix, current_tree_name,
                    tree_file_names, temp_working_dir, printed,
                    output_filenames_to_final_filenames, exit_reason >>

SpecMidpoint == InitMidpoint /\ [][CallRerootTreeAtMidpoint]_vars

---------------------------------------------------------------------------
(* Properties of rerooting at the midpoint *)

\* the bipartitions of a tree: the split of the leaves made by the edge of
\* each node but the seed node
BipartitionsOf(tree) ==
    { { clade, Elements(LeafLabels(tree)) \ clade } :
         clade \in UNION { CladesOf(tree.children[k]) : k \in 1..Len(tree.children) } }

\* the tree read by the first call, the tree it wrote, and the tree written by the second call
TreeGiven == log[1].arg.disk[current_tree_name]
TreeRerooted == log[2].arg.disk[current_tree_name]
TreeRerootedAgain == files[current_tree_name]

\* reroot_tree_at_midpoint has been applied to a tree and to its result
RerootedTwice == Len(log) = 2 /\ Returned("reroot_tree_at_midpoint")

\* C21: for a tree of 3 leaves or more, the set of bipartitions of the tree
\* written by reroot_tree_at_midpoint is the set of bipartitions of the tree
\* written when reroot_tree_at_midpoint is applied to that result again; the
\* leaves and their distances to each other are those of the tree given.
C21_MidpointIdempotent ==
    RerootedTwice =>
        /\ BipartitionsOf(TreeRerootedAgain) = BipartitionsOf(TreeRerooted)
        /\ Len(LeafLabels(TreeRerootedAgain)) = Len(LeafLabels(TreeGiven))
        /\ Elements(LeafLabels(TreeRerooted)) = Elements(LeafLabels(TreeGiven))
        /\ Elements(LeafLabels(TreeRerootedAgain)) = Elements(LeafLabels(TreeGiven))

\* a tree of a root of three child nodes, two of them of three leaves, has
\* been rerooted twice: the first call added bipartitions, and the second
\* call wrote another tree of the same bipartitions
C21_Witness ==
    /\ RerootedTwice
    /\ Len(TreeGiven.children) = 3
    /\ Cardinality(BipartitionsOf(TreeGiven)) < Cardinality(BipartitionsOf(TreeRerooted))
    /\ TreeRerootedAgain # TreeRerooted
    /\ BipartitionsOf(TreeRerootedAgain) = BipartitionsOf(TreeRerooted)

---------------------------------------------------------------------------
(* The transfer of the internal node labels:                               *)
(* transfer_internal_node_labels_to_tree                                   *)

\* an internal node that has a label in the tree file
Labelled(label, length, children) ==
    [label |-> label, length |-> length, children |-> children, created |-> FALSE]

\* tree.internal_nodes(): the labels of the nodes that have child nodes, the
\* seed node first, in preorder
RECURSIVE InternalLabels(_)
InternalLabels(node) ==
    IF node.children = << >> THEN << >>
    ELSE LET Collect[k \in 0..Len(node.children)] ==
                 IF k = 0 THEN << node.label >>
                 ELSE Collect[k - 1] \o InternalLabels(node.children[k])
         IN  Collect[Len(node.children)]

\* lines 500-505: the list of the labels of the source tree ('' for a node without one)
source_internal_node_labels(source_tree) == InternalLabels(source_tree)

\* sequence_reconstructor.replace_internal_node_label: the label transformation
\* of the reconstructor, which puts internal_node_label_prefix before the label
replace_internal_node_label(reconstructor, label) == "internal_" \o label

\* the number of internal nodes of the first k child nodes of a node
RECURSIVE InternalsBefore(_, _)
InternalsBefore(node, k) ==
    IF k = 0 THEN 0
    ELSE InternalsBefore(node, k - 1) + Len(InternalLabels(node.children[k]))

\* a faulty loop of lines 508-511: the index is the depth of the node, not
\* its place in the traversal
RECURSIVE RelabelByDepth(_, _, _, _)
RelabelByDepth(node, labels, index, reconstructor) ==
    IF node.children = << >> THEN node
    ELSE [node EXCEPT
             !.label = replace_internal_node_label(reconstructor, labels[index]),
             !.children = [k \in 1..Len(node.children) |->
                              RelabelByDepth(node.children[k], labels, index + 1,
                                             reconstructor)]]

\* lines 508-511: the internal nodes under a node take the transformed labels
\* of the list from the given index on, in preorder (index counts from 1)
RECURSIVE Relabel(_, _, _, _)
Relabel(node, labels, index, reconstructor) ==
    IF node.children = << >> THEN node
    ELSE [node EXCEPT
             !.label = replace_internal_node_label(reconstructor, labels[index]),
             !.children = [k \in 1..Len(node.children) |->
                              Relabel(node.children[k], labels,
                                      index + 1 + InternalsBefore(node, k - 1),
                                      reconstructor)]]

\* source_internal_node_labels[index] raises IndexError for an index past the list
MsgIndexError == "IndexError"

\* transfer_internal_node_labels_to_tree, on the trees read: the tree written
\* to output_tree_filename, or the uncaught exception
transfer_internal_node_labels_to_tree(source_tree, destination_tree, reconstructor) ==
    IF Len(InternalLabels(destination_tree)) > Len(source_internal_node_labels(source_tree))
    THEN [raised |-> MsgIndexError, written |-> destination_tree]
    ELSE [raised |-> "",
          written |-> Relabel(destination_tree, source_internal_node_labels(source_tree), 1,
                              reconstructor)]

\* raw_internal_rooted_tree_filename and temp_rooted_tree of iteration n
RawInternalRootedTreeName(n) ==
    InTemp(<< "asr_tree_prefix" >> \o CurrentBasename(n) \o << ".internal", "asr_tree_suffix" >>)
TempRootedTreeName(n) == InTemp(CurrentTreeName(n) \o << ".rooted" >>)

\* the tree files read by the transfer: trees of four shapes over the leaves
\* A..D, ((A,B),(C,D)), (((A,B),C),D), ((A,B),C,D) and (A,B,C), of 3, 3, 2 and
\* 1 internal nodes, with the given labels at the internal nodes
LabelledTree(shape, labels) ==
    IF shape = 1
    THEN Labelled(labels[1], 0, << Labelled(labels[2], 1, << Leaf("A", 1), Leaf("B", 2) >>),
                                   Labelled(labels[3], 2, << Leaf("C", 3), Leaf("D", 4) >>) >>)
    ELSE IF shape = 2
    THEN Labelled(labels[1], 0,
                  << Labelled(labels[2], 1,
                              << Labelled(labels[3], 2, << Leaf("A", 1), Leaf("B", 2) >>),
                                 Leaf("C", 3) >>),
                     Leaf("D", 4) >>)
    ELSE IF shape = 3
    THEN Labelled(labels[1], 0, << Labelled(labels[2], 1, << Leaf("A", 1), Leaf("B", 2) >>),
                                   Leaf("C", 3), Leaf("D", 4) >>)
    ELSE Labelled(labels[1], 0, << Leaf("A", 1), Leaf("B", 2), Leaf("C", 3) >>)

\* the trees written by the reconstructor: an internal node has a label or none
SourceTrees ==
    { LabelledTree(shape, labels) : shape \in 1..4, labels \in [1..3 -> { "", "1", "2" }] }

\* the rooted trees of the driver: no internal node has a label, or all have one
DestinationTrees ==
    { LabelledTree(shape, [k \in 1..3 |-> old]) : shape \in 1..4, old \in { "", "old" } }

InitLabels ==
    /\ pc = "transfer_internal_node_labels_to_tree"
    /\ i = 1
    /\ tree_file_names = << >>
    /\ current_tree_name = CurrentTreeName(1)
    /\ input_args = ArgsWithMethod("recombination")
    /\ \E source_tree \in SourceTrees, destination_tree \in DestinationTrees :
          files = Put(Put([n \in {} |-> Opaque], RawInternalRootedTreeName(1), source_tree),
                      TempRootedTreeName(1), destination_tree)
    /\ LocalsIdle

\* lines 234-235, lines 497-515: transfer_internal_node_labels_to_tree reads
\* the two tree files and writes the destination tree with the new labels
CallTransferInternalNodeLabels ==
    /\ pc = "transfer_internal_node_labels_to_tree"
    /\ LET returned == transfer_internal_node_labels_to_tree(
                           files[RawInternalRootedTreeName(i)], files[TempRootedTreeName(i)],
                           sequence_reconstructor)
       IN  /\ files' = IF returned.raised = "" 
                       THEN Put(files, current_tree_name \o << ".internal" >>, returned.written)
                       ELSE files
           /\ exit_reason' = returned.raised
           /\ pc' = IF returned.raised = "" THEN "Returned" ELSE "Failed"
           /\ log' = Append(log, Event("transfer_internal_node_labels_to_tree", i,
                                       sequence_reconstructor,
                                       [names |-> tree_file_names, disk |-> files],
                                       returned.raised = ""))
    /\ UNCHANGED << input_args, alignment_file, starting_tree_file, stale_intermediate, i,
                    tree_builder, sequence_reconstructor, alignment_suffix, current_tree_name,
                    tree_file_names, temp_working_dir, printed,
                    output_filenames_to_final_filenames >>

SpecLabels == InitLabels /\ [][CallTransferInternalNodeLabels]_vars

---------------------------------------------------------------------------
(* Properties of the transfer of labels *)

\* the paths of the internal nodes of a tree, in preorder
RECURSIVE InternalPaths(_)
InternalPaths(node) ==
    IF node.children = << >> THEN << >>
    ELSE LET Collect[k \in 0..Len(node.children)] ==
                 IF k = 0 THEN << << >> >>
                 ELSE Collect[k - 1] \o
                      [m \in 1..Len(InternalPaths(node.children[k])) |->
                          << k >> \o InternalPaths(node.children[k])[m]]
         IN  Collect[Len(node.children)]

\* a tree without the labels of its internal nodes: leaf labels, topology and edge lengths
RECURSIVE WithoutInternalLabels(_)
WithoutInternalLabels(node) ==
    IF node.children = << >> THEN node
    ELSE [node EXCEPT !.label = "",
                      !.children = [k \in 1..Len(node.children) |->
                                       WithoutInternalLabels(node.children[k])]]

\* the call has returned or raised; the trees it read and the tree it wrote
TransferCalled == Len(log) > 0 /\ log[Len(log)].stage = "transfer_internal_node_labels_to_tree"
SourceTree == DiskBefore[RawInternalRootedTreeName(i)]
DestinationTree == DiskBefore[TempRootedTreeName(i)]
OutputTree == files[current_tree_name \o << ".internal" >>]

---------------------------------------------------------------------------
(* Properties of the final step of the driver *)

\* the suffixes of the final file names
FinalSuffixes ==
    { ".summary_of_snp_distribution.vcf", ".branch_base_reconstruction.embl",
      ".recombination_predictions.embl", ".recombination_predictions.gff",
      ".per_branch_statistics.csv", ".filtered_polymorphic_sites.fasta",
      ".filtered_polymorphic_sites.phylip", ".node_labelled.final_tree.tre",
      ".final_tree.tre" }

\* the iterations that have run to their convergence step, and the last of them
ExecutedIterations == { log[k].i : k \in EventsOf("CHECK_CONVERGENCE") }
LastExecuted == CHOOSE n \in ExecutedIterations : \A m \in ExecutedIterations : m <= n

StagesAfterTheTree ==
    { "REROOT", "RECONSTRUCT_ANCESTRAL", "TRANSFER_LABELS", "REINSERT_GAPS",
      "DETECT_RECOMBINATION", "CHECK_CONVERGENCE" }

\* every stage of iteration n has run and has succeeded
IterationComplete(n) ==
    /\ \E k \in EventsOf("BUILD_TREE") \cup EventsOf("COPY_STARTING_TREE") :
          log[k].i = n /\ log[k].result
    /\ \A stage \in StagesAfterTheTree : \E k \in EventsOf(stage) : log[k].i = n
    /\ \A k \in 1..Len(log) :
          log[k].i = n /\ log[k].stage \in StagesAfterTheTree \ { "CHECK_CONVERGENCE" }
              => log[k].result

\* the files removed by a step: the names that are gone and have not been
\* given their final name by the step
RemovedFiles ==
    { n \in DOMAIN files \ DOMAIN files' :
         ~ \E r \in output_filenames_to_final_filenames' :
              r[1] = n /\ r[2] \in DOMAIN files' /\ r[2] \notin DOMAIN files }

\* C24: a step that removes the scratch directory, or a file that the run has
\* written, is taken with cleanup enabled, after every stage of every
\* iteration that ran and after the final renaming; no file of the tree name
\* of the last iteration that ran and no file of a final name is among the
\* files removed, and with no_cleanup nothing is ever removed.
C24_CleanupLastAndOptional ==
    [][ (temp_working_dir /\ ~ temp_working_dir') \/ RemovedFiles # {} =>
          /\ ~ input_args.no_cleanup
          /\ pc = "Cleanup"
          /\ EventsOf("FINALIZE") # {}
          /\ log[Len(log)].stage = "FINALIZE"
          /\ \A n \in 1..i : IterationComplete(n)
          /\ \A k \in 1..Len(log) : log[k].i <= i
          /\ \A n \in RemovedFiles :
                /\ i >= 1 => ~ StartsWith(n, CurrentTreeName(i))
                /\ \A r \in output_filenames_to_final_filenames : n # r[1] /\ n # r[2]
          /\ \A r \in output_filenames_to_final_filenames :
                r[2] \in DOMAIN files => r[2] \in DOMAIN files' /\ files'[r[2]] = files[r[2]]
      ]_vars

\* a run of two iterations or more has ended with cleanup enabled: the
\* scratch directory and the tree of iteration 1 are gone, the final tree is there
C24_Witness ==
    /\ pc = "Done"
    /\ ~ input_args.no_cleanup
    /\ Len(tree_file_names) >= 2
    /\ ~ temp_working_dir
    /\ CurrentTreeName(1) \notin DOMAIN files
    /\ CurrentTreeName(Len(tree_file_names)) \notin DOMAIN files
    /\ input_args.prefix \o << ".final_tree.tre" >> \in DOMAIN files
    /\ input_args.prefix \o << ".node_labelled.final_tree.tre" >> \in DOMAIN files


---------------------------------------------------------------------------
(* Properties of the comparison of the starting tree with the alignment *)

\* the input check has reached the comparison of the names: the alignment
\* is valid and a starting tree is given, exists and is valid
NamesCompared ==
    /\ EventsOf("VALIDATE") # {}
    /\ alignment_file.exists /\ alignment_file.valid
    /\ Truthy(input_args.starting_tree)
    /\ starting_tree_file.exists /\ starting_tree_file.valid

\* C25: the comparison of the names fails exactly when a leaf label of the
\* starting tree is not a sequence id of the alignment, which may hold more
\* sequences than the tree; when it fails the run stops with the message of
\* the names before any processing, and when it passes the run never stops
\* with that message.
C25_NamesAreSubset ==
    NamesCompared =>
        /\ do_the_names_match_the_fasta_file(starting_tree_file, alignment_file)
              <=> starting_tree_file.leaves \subseteq alignment_file.names
        /\ exit_reason = MsgNames
              <=> ~ (starting_tree_file.leaves \subseteq alignment_file.names)
        /\ ~ (starting_tree_file.leaves \subseteq alignment_file.names) =>
              /\ pc = "Failed"
              /\ \A k \in 1..Len(log) : log[k].stage \in { "DEPENDENCIES", "VALIDATE" }
              /\ \A k \in EventsOf("VALIDATE") : ~ log[k].result
              /\ ~ temp_working_dir
              /\ DOMAIN files = {}
        /\ /\ starting_tree_file.leaves \subseteq alignment_file.names
           /\ number_of_sequences_in_alignment(alignment_file) >= 3
           => \A k \in EventsOf("VALIDATE") : log[k].result

\* a starting tree that names some but not all sequences of the alignment
\* has passed the input check and its run has gone on
C25_Witness ==
    /\ NamesCompared
    /\ starting_tree_file.leaves \subseteq alignment_file.names
    /\ starting_tree_file.leaves # alignment_file.names
    /\ EventsOf("COPY_STARTING_TREE") # {}
    /\ \A k \in EventsOf("VALIDATE") : log[k].result


---------------------------------------------------------------------------
(* The window sizes of the recombination detector.  check_and_fix_window_size
   is called once, on the window sizes of the command line; every iteration
   then builds the command of the detector from the values it has left. *)

\* lines 347-350: the least minimum and the greatest maximum window size
MinWindowFloor == 3
MaxWindowCeiling == 1000000

\* the window sizes given on the command line
WindowSizes == { -10, -1, 2, 3, 4, 100, 10000, 999999, 1000000, 1000001, 2000000 }

\* str(n) of a natural number, as the sequence of its digits
RECURSIVE StrNat(_)
StrNat(n) ==
    LET digit == << "0", "1", "2", "3", "4", "5", "6", "7", "8", "9" >>[(n % 10) + 1]
    IN  IF n < 10 THEN << digit >> ELSE Append(StrNat(n \div 10), digit)

\* str(n) of an integer
StrInt(n) == IF n < 0 THEN << "-" >> \o StrNat(-n) ELSE StrNat(n)

\* lines 346-352: check_and_fix_window_size
check_and_fix_window_size(args) ==
    LET low == [args EXCEPT !.min_window_size =
                    IF args.min_window_size < MinWindowFloor THEN MinWindowFloor
                    ELSE args.min_window_size]
        capped == [low EXCEPT !.max_window_size =
                    IF low.max_window_size > MaxWindowCeiling THEN MaxWindowCeiling
                    ELSE low.max_window_size]
    IN  IF capped.min_window_size > capped.max_window_size
        THEN [capped EXCEPT !.max_window_size = capped.min_window_size,
                            !.min_window_size = capped.max_window_size]
        ELSE capped

\* lines 297-302: create_gubbins_command, the words of the command line
create_gubbins_command(gubbins_exec, alignment_filename, vcf_filename, tree_name, original_alignment_filename, min_snps, min_window_size, max_window_size) ==
    << gubbins_exec, "-r", "-v", vcf_filename, "-a", StrInt(min_window_size),
       "-b", StrInt(max_window_size), "-f", original_alignment_filename, "-t", tree_name,
       "-m", StrInt(min_snps), alignment_filename >>

InitWindow ==
    /\ pc = "check_and_fix_window_size"
    /\ i = 0
    /\ tree_file_names = << >>
    /\ current_tree_name = EmptyString
    /\ files = [n \in {} |-> Opaque]
    /\ \E min_window_size \in WindowSizes, max_window_size \in WindowSizes :
          input_args =
              [ iterations |-> MaxIterations, tree_builder |-> "raxml", starting_tree |-> None,
                converge_method |-> "weighted_robinson_foulds", no_cleanup |-> FALSE,
                outgroup |-> None, prefix |-> None, alignment_filename |-> base_filename,
                min_snps |-> 3, min_window_size |-> min_window_size,
                max_window_size |-> max_window_size ]
    /\ LocalsIdle

\* line 101: the window sizes are checked and fixed, once, before the loop
CallCheckAndFixWindowSize ==
    /\ pc = "check_and_fix_window_size"
    /\ input_args' = check_and_fix_window_size(input_args)
    /\ pc' = "create_gubbins_command"
    /\ i' = 1
    /\ current_tree_name' = CurrentTreeName(1)
    /\ log' = Append(log, Event("check_and_fix_window_size", 0, "input",
                                << input_args.min_window_size, input_args.max_window_size >>,
                                TRUE))
    /\ UNCHANGED << alignment_file, starting_tree_file, stale_intermediate, tree_builder,
                    sequence_reconstructor, alignment_suffix, tree_file_names,
                    temp_working_dir, files, printed, output_filenames_to_final_filenames,
                    exit_reason >>

\* lines 155, 172, 251-253: each iteration builds the command of the detector
\* from the window sizes of input_args
CallCreateGubbinsCommand ==
    /\ pc = "create_gubbins_command"
    /\ log' = Append(log, Event("create_gubbins_command", i, "gubbins",
                                create_gubbins_command(
                                    "gubbins", base_filename \o << ".gaps.snp_sites.aln" >>,
                                    base_filename \o << ".gaps.vcf" >>, current_tree_name,
                                    input_args.alignment_filename, input_args.min_snps,
                                    input_args.min_window_size, input_args.max_window_size),
                                TRUE))
    /\ tree_file_names' = Append(tree_file_names, current_tree_name)
    /\ IF i < input_args.iterations
       THEN /\ i' = i + 1
            /\ current_tree_name' = CurrentTreeName(i + 1)
            /\ pc' = pc
       ELSE /\ pc' = "Returned"
            /\ UNCHANGED << i, current_tree_name >>
    /\ UNCHANGED << input_args, alignment_file, starting_tree_file, stale_intermediate,
                    tree_builder, sequence_reconstructor, alignment_suffix,
                    temp_working_dir, files, printed, output_filenames_to_final_filenames,
                    exit_reason >>

SpecWindow ==
    InitWindow /\ [][CallCheckAndFixWindowSize \/ CallCreateGubbinsCommand]_vars

---------------------------------------------------------------------------
(* Properties of the window sizes *)

\* the window sizes have been checked and fixed
WindowFixed == pc # "check_and_fix_window_size"

\* the window sizes given to check_and_fix_window_size
WindowGiven == log[1].arg

\* the commands of the detector built so far
GubbinsCommands == { k \in 1..Len(log) : log[k].stage = "create_gubbins_command" }

\* C26: once check_and_fix_window_size has returned, whatever the two
\* integers given, the minimum window size is at least 3, at most the maximum
\* window size, which is at most 1000000, and the command of the detector of
\* every iteration carries these two values after -a and -b.
C26_WindowWithinBounds ==
    WindowFixed =>
        /\ MinWindowFloor <= input_args.min_window_size
        /\ input_args.min_window_size <= input_args.max_window_size
        /\ input_args.max_window_size <= MaxWindowCeiling
        /\ \A k \in GubbinsCommands :
              /\ log[k].arg[5] = "-a" /\ log[k].arg[6] = StrInt(input_args.min_window_size)
              /\ log[k].arg[7] = "-b" /\ log[k].arg[8] = StrInt(input_args.max_window_size)

\* what the code does keep: the minimum is at most the maximum, the values
\* are those given, limited or exchanged, every command carries them, and
\* the bounds hold when the minimum given is at most the maximum given, the
\* minimum given at most 1000000 and the maximum given at least 3
C26_WindowOrdered ==
    WindowFixed =>
        /\ input_args.min_window_size <= input_args.max_window_size
        /\ /\ WindowGiven[1] <= WindowGiven[2]
           /\ WindowGiven[1] <= MaxWindowCeiling
           /\ MinWindowFloor <= WindowGiven[2]
           =>
              /\ MinWindowFloor <= input_args.min_window_size
              /\ input_args.max_window_size <= MaxWindowCeiling
        /\ \A k \in GubbinsCommands :
              /\ log[k].arg[6] = StrInt(input_args.min_window_size)
              /\ log[k].arg[8] = StrInt(input_args.max_window_size)

\* every iteration has built its command from window sizes that were given
\* out of order and out of range
C26_Witness ==
    /\ pc = "Returned"
    /\ Cardinality(GubbinsCommands) = MaxIterations
    /\ WindowGiven = << 2000000, 4 >>
    /\ input_args.min_window_size = 4
    /\ input_args.max_window_size = 2000000
    /\ log[Len(log)].arg[8] = << "2", "0", "0", "0", "0", "0", "0" >>


---------------------------------------------------------------------------
(* Properties of the history of tree names *)

\* the history of tree names and the two tree files, right after the
\* convergence check of iteration i
HistoryAtCheck ==
    LET internal == current_tree_name \o << ".internal" >> IN
    /\ Len(tree_file_names) = i
    /\ tree_file_names = HistoryOf(i)
    /\ \A k, l \in 1..i : k # l => tree_file_names[k] # tree_file_names[l]
    /\ tree_file_names[i] = current_tree_name
    /\ current_tree_name \in DOMAIN files /\ internal \in DOMAIN files
    /\ HasInternalLabels(files[internal])
    /\ ~ HasInternalLabels(files[current_tree_name])
    /\ files[current_tree_name] = files[internal].tree
    /\ files[current_tree_name] = files[InTemp(current_tree_name \o << ".rooted" >>)]

\* the history holds one name for each convergence check made so far, in
\* the order of the iterations
HistoryFollowsChecks ==
    /\ Len(tree_file_names) = Cardinality(EventsOf("CHECK_CONVERGENCE"))
    /\ tree_file_names = HistoryOf(Len(tree_file_names))
    /\ JustChecked => HistoryAtCheck

\* a step keeps the history or appends one name to it
HistoryGrows ==
    /\ Len(tree_file_names') >= Len(tree_file_names)
    /\ Len(tree_file_names') <= Len(tree_file_names) + 1
    /\ SubSeq(tree_file_names', 1, Len(tree_file_names)) = tree_file_names

\* C27: right after the convergence check of iteration i the history is the
\* list of the tree names of iterations 1..i in order, without duplicate and
\* without gap, its last name is the current tree name, the file of that
\* name holds the tree of the iteration without internal labels and the
\* ".internal" file holds it with them; no step of the run shortens or
\* reorders the history.
C27_HistoryOfTreeNames == [] HistoryFollowsChecks /\ [][HistoryGrows]_vars

\* the convergence check of an iteration after the first has been made and
\* has not stopped the loop
C27_Witness ==
    /\ JustChecked
    /\ i >= 2
    /\ pc = "LoopHead"
    /\ HistoryAtCheck
    /\ tree_file_names[1] # tree_file_names[2]


---------------------------------------------------------------------------
(* Properties of the choice between the starting tree and the tree builder *)

\* the tree step of iteration 1 has run
TreeStepOfIteration1 ==
    \E k \in EventsOf("BUILD_TREE") \cup EventsOf("COPY_STARTING_TREE") : log[k].i = 1

\* C28: once the tree step of iteration 1 has run, the tree builder was
\* invoked in iteration 1 exactly when the starting tree is None or the
\* empty string, as the input check and the filtering of the taxa read the
\* option; a run whose starting tree is the empty string has built the tree
\* of iteration 1 and has not tried to copy a starting tree.
C28_EmptyStartingTreeIsBuilt ==
    TreeStepOfIteration1 =>
        /\ (\E k \in EventsOf("BUILD_TREE") : log[k].i = 1)
              <=> ~ Truthy(input_args.starting_tree)
        /\ input_args.starting_tree = EmptyString =>
              /\ EventsOf("COPY_STARTING_TREE") = {}
              /\ exit_reason # MsgCopyError

\* a run whose starting tree is the empty string has passed the input check,
\* has tried to copy the file of that name in iteration 1 and has died of it
C28_Witness ==
    /\ input_args.starting_tree = EmptyString
    /\ \E k \in EventsOf("VALIDATE") : log[k].result
    /\ \E k \in EventsOf("COPY_STARTING_TREE") : log[k].i = 1 /\ ~ log[k].result
    /\ EventsOf("BUILD_TREE") = {}
    /\ pc = "Failed"
    /\ exit_reason = MsgCopyError

===========================================================================
